---- MODULE Spec2Model ----
(***************************************************************************)
(* Error routing and repair dispatch of JurisTechLLC/OpenDevin:            *)
(*   openhands/integrations/devin_integration.py   (DevinIntegrationService)*)
(*   openhands/integrations/intelligent_error_analyzer.py                  *)
(*   openhands/integrations/error_router.py        (ErrorRouterService)    *)
(*                                                                         *)
(* Conventions.  A Python str is the concatenation of a sequence of atomic *)
(* tokens (a token is a word, a separator such as " " or "/", or a         *)
(* secret-shaped lexeme); None and the empty string are both << >>.  A    *)
(* Python dict is a function whose DOMAIN is the set of keys present.      *)
(* time.time() and datetime.now() are one integer clock in seconds; a call *)
(* reads it once.  SHA-256 is taken as injective, so a fingerprint is the  *)
(* hashed string itself.                                                   *)
(***************************************************************************)
EXTENDS Integers, Sequences, FiniteSets, TLC

VARIABLES
    clock,                \* wall clock, seconds
    request_counts,       \* DevinIntegrationService._request_counts   hour -> count
    last_request_reset,   \* DevinIntegrationService._last_request_reset
    recent_error_hashes,  \* DevinIntegrationService._recent_error_hashes  hash -> timestamp
    resolved_errors,      \* DevinIntegrationService._resolved_errors   hash -> record
    error_history,        \* DevinIntegrationService._error_history     hash -> list of attempts
    active_sessions,      \* DevinIntegrationService._active_sessions   hash -> session id
    last,                 \* the call just made: its inputs, its result, its outbound requests
    sent,                 \* bookkeeping of the POSTs made to the repair service
    parallel              \* the calls of route_error running in threads of their own

vars == <<clock, request_counts, last_request_reset, recent_error_hashes,
          resolved_errors, error_history, active_sessions, last, sent, parallel>>

-----------------------------------------------------------------------------
(* Program constants *)

MAX_REQUESTS_PER_HOUR == 10
DEDUPLICATION_WINDOW_SECONDS == 3600
PR_MERGE_COOLDOWN_SECONDS == 300
HOUR_SECONDS == 3600

(* Bounds of the model *)

MaxInstant == 4      \* the calls are made at the first MaxInstant instants of Schedule

-----------------------------------------------------------------------------
(* Dictionaries *)

EmptyDict == [k \in {} |-> 0]

DictGet(d, k, default) == IF k \in DOMAIN d THEN d[k] ELSE default

DictSet(d, k, v) == [x \in (DOMAIN d) \cup {k} |-> IF x = k THEN v ELSE d[x]]

DictDel(d, k) == [x \in (DOMAIN d) \ {k} |-> d[x]]

-----------------------------------------------------------------------------
(* Sanitizer: DevinIntegrationService._sanitize_* *)

\* One lexeme against the patterns _sanitize_string applies before the bearer
\* pattern (API keys, UUIDs, e-mail addresses, JWTs), in the order of the code.
SanitizeKeyToken(tok) ==
    CASE tok = "sk-ant-api03-XyZ"                        -> "[ANTHROPIC_KEY]"
      [] tok = "sk-abcdefghijklmnopqrstuvwx"             -> "[OPENAI_KEY]"
      [] tok = "123e4567-e89b-12d3-a456-426614174000"    -> "[UUID]"
      [] tok = "alice@example.com"                       -> "[EMAIL]"
      [] tok = "bob@example.com"                         -> "[EMAIL]"
      [] tok = "eyJhbGci.eyJzdWIi.c2ln"                  -> "[JWT_TOKEN]"
      [] OTHER                                           -> tok

IsBearerWord(tok) == tok \in {"Bearer", "bearer", "BEARER"}

\* Whitespace is a lexeme of its own: a str is the concatenation of its lexemes.
IsSpace(tok) == tok = " "

\* The lexemes with a character outside [a-zA-Z0-9\-_\.]: whitespace, the
\* path separator, the bracketed placeholders, and the secrets with other
\* punctuation.
NonCredentialLexemes ==
    {" ", "/", "~", "[ANTHROPIC_KEY]", "[OPENAI_KEY]", "[PINECONE_KEY]", "[VOYAGE_KEY]",
     "[UUID]", "[EMAIL]", "[JWT_TOKEN]", "[TOKEN]", "[DATABASE_URL]", "[IP_ADDRESS]",
     "[REDACTED]", "alice@example.com", "bob@example.com", "postgres://u:p@db/x",
     "app.py:10"}

\* The lexemes that consist of the characters of a bearer credential,
\* [a-zA-Z0-9\-_\.]+ ; a bracketed placeholder does not.
IsBearerCredential(tok) == tok \notin NonCredentialLexemes

\* The number of lexemes at the head of s that satisfy Test.
RunLength(s, Test(_)) ==
    CHOOSE n \in 0..Len(s) :
        /\ \A k \in 1..n : Test(s[k])
        /\ n < Len(s) => ~Test(s[n + 1])

\* re.sub(r'Bearer\s+[a-zA-Z0-9\-_\.]+', 'Bearer [TOKEN]', flags=IGNORECASE):
\* the matches are taken from the left and do not overlap.
RECURSIVE BearerRule(_)
BearerRule(str) ==
    CHOOSE result \in
        {IF s = <<>> THEN <<>>
         ELSE LET spaces == RunLength(Tail(s), IsSpace)
                  after  == SubSeq(s, 2 + spaces, Len(s))
                  chars  == RunLength(after, IsBearerCredential)
              IN  IF IsBearerWord(s[1]) /\ spaces > 0 /\ chars > 0
                  THEN <<"Bearer", " ", "[TOKEN]">>
                          \o BearerRule(SubSeq(after, chars + 1, Len(after)))
                  ELSE <<s[1]>> \o BearerRule(Tail(s)) : s \in {str}} : TRUE

IsNonSpace(tok) == ~IsSpace(tok)

\* re.sub(r'postgres(ql)?://[^\s]+', '[DATABASE_URL]', flags=IGNORECASE): the
\* match runs to the next whitespace.
RECURSIVE DatabaseRule(_)
DatabaseRule(str) ==
    CHOOSE result \in
        {IF s = <<>> THEN <<>>
         ELSE IF s[1] = "postgres://u:p@db/x"
              THEN LET run == RunLength(s, IsNonSpace)
                   IN  <<"[DATABASE_URL]">> \o DatabaseRule(SubSeq(s, run + 1, Len(s)))
              ELSE <<s[1]>> \o DatabaseRule(Tail(s)) : s \in {str}} : TRUE

\* One lexeme against the last pattern, the IP addresses.
SanitizeAddressToken(tok) ==
    CASE tok = "10.0.0.7"                                -> "[IP_ADDRESS]"
      [] OTHER                                           -> tok

SanitizeString(str) ==
    CHOOSE result \in
        {[i \in 1..Len(bearer) |-> SanitizeAddressToken(bearer[i])] :
            bearer \in {DatabaseRule(BearerRule([i \in 1..Len(s) |-> SanitizeKeyToken(s[i])])) :
                            s \in {str}}} : TRUE

\* re.sub(r'/[^\s]*/OpenDevin/', 'OpenDevin/'): from a separator over the
\* longest stretch without whitespace that ends in /OpenDevin/.
RECURSIVE ProjectRootRule(_)
ProjectRootRule(str) ==
    CHOOSE result \in
        {IF s = <<>> THEN <<>>
         ELSE LET run  == RunLength(s, IsNonSpace)
                  ends == {e \in 4..run :
                              s[e-2] = "/" /\ s[e-1] = "OpenDevin" /\ s[e] = "/"}
              IN  IF s[1] = "/" /\ ends # {}
                  THEN LET e == CHOOSE x \in ends : \A y \in ends : y <= x
                       IN  <<"OpenDevin", "/">> \o ProjectRootRule(SubSeq(s, e + 1, Len(s)))
                  ELSE <<s[1]>> \o ProjectRootRule(Tail(s)) : s \in {str}} : TRUE

\* A lexeme of [^\s/]+ : neither whitespace nor the path separator.
IsPathWord(tok) == ~IsSpace(tok) /\ tok # "/"

\* re.sub(r'/home/[^\s/]+/', '~/'): /home/, a name, the next separator.
RECURSIVE HomeRule(_)
HomeRule(str) ==
    CHOOSE result \in
        {IF s = <<>> THEN <<>>
         ELSE LET name == IF Len(s) >= 3
                          THEN RunLength(SubSeq(s, 4, Len(s)), IsPathWord) ELSE 0
              IN  IF /\ Len(s) >= 5 /\ s[1] = "/" /\ s[2] = "home" /\ s[3] = "/"
                     /\ name > 0 /\ Len(s) >= 4 + name /\ s[4 + name] = "/"
                  THEN <<"~", "/">> \o HomeRule(SubSeq(s, 5 + name, Len(s)))
                  ELSE <<s[1]>> \o HomeRule(Tail(s)) : s \in {str}} : TRUE

\* A stack trace of one line: the string patterns, then the two path patterns.
SanitizeStackTrace(st) == HomeRule(ProjectRootRule(SanitizeString(st)))

SensitiveFields == {"password", "secret", "token", "api_key", "apiKey",
                    "authorization", "cookie", "session", "user_id", "userId",
                    "email", "phone", "ssn", "credit_card", "creditCard"}

\* str.lower() on the lexemes that have upper-case letters.
Lower(tok) ==
    CASE tok = "apiKey"         -> "apikey"
      [] tok = "userId"         -> "userid"
      [] tok = "creditCard"     -> "creditcard"
      [] tok = "Token"          -> "token"
      [] tok = "TOKEN"          -> "token"
      [] tok = "Authorization"  -> "authorization"
      [] tok = "TRUE"           -> "true"
      [] tok = "Yes"            -> "yes"
      [] OTHER                  -> tok

\* any(field.lower() in key.lower() for field in sensitive_fields); a field
\* name that occurs in a key occupies one lexeme of it.
IsSensitiveKey(key) ==
    \E i \in 1..Len(key) : \E f \in SensitiveFields : Lower(f) = Lower(key[i])

\* A context value is tagged: "str" (v a string), "dict" (v a dict of values),
\* "list" (v a sequence of values), "other" (v a number or boolean), "object"
\* (v a value of any other type).
RECURSIVE SanitizeContext(_)
SanitizeContext(context) ==
    [key \in DOMAIN context |->
        LET value == context[key] IN
        IF IsSensitiveKey(key) THEN [t |-> "str", v |-> <<"[REDACTED]">>]
        ELSE IF value.t = "str" THEN [t |-> "str", v |-> SanitizeString(value.v)]
        ELSE IF value.t = "dict" THEN [t |-> "dict", v |-> SanitizeContext(value.v)]
        ELSE IF value.t = "list" THEN
            [t |-> "list", v |->
                [i \in 1..Len(value.v) |->
                    LET item == value.v[i] IN
                    IF item.t = "str" THEN [t |-> "str", v |-> SanitizeString(item.v)]
                    ELSE IF item.t = "dict" THEN [t |-> "dict", v |-> SanitizeContext(item.v)]
                    ELSE item]]
        ELSE value]

SanitizeError(error) ==
    [category      |-> error.category,
     event         |-> error.event,
     message       |-> SanitizeString(error.message),
     stack_trace   |-> IF error.stack_trace # <<>> THEN SanitizeStackTrace(error.stack_trace) ELSE <<>>,
     code_location |-> error.code_location,
     context       |-> IF DOMAIN error.context # {} THEN SanitizeContext(error.context) ELSE EmptyDict]

\* json.dumps(context) returns: every value in the context, at any depth, is a
\* string, a number, a boolean, a list or a dict.  A value tagged "object" is
\* of some other type, and json.dumps raises TypeError on it.
RECURSIVE JsonSerializable(_)
JsonSerializable(context) ==
    \A key \in DOMAIN context :
        LET value == context[key] IN
        IF value.t = "object" THEN FALSE
        ELSE IF value.t = "dict" THEN JsonSerializable(value.v)
        ELSE IF value.t = "list" THEN
            \A i \in 1..Len(value.v) :
                LET item == value.v[i] IN
                IF item.t = "object" THEN FALSE
                ELSE IF item.t = "dict" THEN JsonSerializable(item.v)
                ELSE TRUE
        ELSE TRUE

\* "if error.context: ... json.dumps(error.context, indent=2)" raises.
JsonDumpsRaises(context) == DOMAIN context # {} /\ ~JsonSerializable(context)

-----------------------------------------------------------------------------
(* Fingerprint: DevinIntegrationService._generate_error_hash *)

\* The fingerprint taken of the sanitized message.
GenerateErrorHashSanitized(error) ==
    error.category \o <<":">> \o error.event \o <<":">> \o SanitizeString(error.message)
        \o <<":">> \o error.code_location

\* hash_input, of which the SHA-256 digest is taken: the digest is modelled
\* by its input.
GenerateErrorHash(error) ==
    error.category \o <<":">> \o error.event \o <<":">> \o error.message
        \o <<":">> \o error.code_location

-----------------------------------------------------------------------------
(* Rate limiter and deduplication store *)

\* _check_rate_limit: the admission verdict and the state it leaves.
CheckRateLimit(counts, last_reset, now) ==
    LET expired == now - last_reset > HOUR_SECONDS
        c1      == IF expired THEN EmptyDict ELSE counts
        lr      == IF expired THEN now ELSE last_reset
        current_hour == now \div HOUR_SECONDS
        count   == DictGet(c1, current_hour, 0)
    IN  IF count >= MAX_REQUESTS_PER_HOUR
        THEN [ok |-> FALSE, request_counts |-> c1, last_request_reset |-> lr]
        ELSE [ok |-> TRUE,  request_counts |-> DictSet(c1, current_hour, count + 1),
              last_request_reset |-> lr]

\* _check_rate_limit up to "count = self._request_counts.get(current_hour, 0)":
\* the hourly reset, and the count read.
RateLimitRead(counts, last_reset, now) ==
    LET expired == now - last_reset > HOUR_SECONDS
        c1      == IF expired THEN EmptyDict ELSE counts
    IN  [request_counts |-> c1,
         last_request_reset |-> IF expired THEN now ELSE last_reset,
         count |-> DictGet(c1, now \div HOUR_SECONDS, 0)]

\* "self._request_counts[current_hour] = count + 1" with the count read before.
RateLimitWrite(counts, now, count) == DictSet(counts, now \div HOUR_SECONDS, count + 1)

\* _check_duplicate up to "if error_hash in self._recent_error_hashes": the
\* stale entries are dropped and the fingerprint is looked up.
DuplicateTest(recent, error_hash, now) ==
    LET cutoff_time == now - DEDUPLICATION_WINDOW_SECONDS
        kept   == {h \in DOMAIN recent : recent[h] > cutoff_time}
        pruned == [h \in kept |-> recent[h]]
    IN  [dup |-> error_hash \in kept, recent_error_hashes |-> pruned]

\* _check_duplicate forgetting to remember the fingerprint it lets through.
CheckDuplicateWithoutInsert(recent, error_hash, now) ==
    LET cutoff_time == now - DEDUPLICATION_WINDOW_SECONDS
        kept   == {h \in DOMAIN recent : recent[h] > cutoff_time}
        pruned == [h \in kept |-> recent[h]]
    IN  [dup |-> error_hash \in DOMAIN pruned, recent_error_hashes |-> pruned]

\* _check_duplicate writing the current time on a hit as well.
CheckDuplicateRefreshes(recent, error_hash, now) ==
    LET cutoff_time == now - DEDUPLICATION_WINDOW_SECONDS
        kept   == {h \in DOMAIN recent : recent[h] > cutoff_time}
        pruned == [h \in kept |-> recent[h]]
    IN  [dup |-> error_hash \in DOMAIN pruned,
         recent_error_hashes |-> DictSet(pruned, error_hash, now)]

\* _check_duplicate: prune, then test and insert.
CheckDuplicate(recent, error_hash, now) ==
    LET cutoff_time == now - DEDUPLICATION_WINDOW_SECONDS
        kept   == {h \in DOMAIN recent : recent[h] > cutoff_time}
        pruned == [h \in kept |-> recent[h]]
    IN  IF error_hash \in DOMAIN pruned
        THEN [dup |-> TRUE,  recent_error_hashes |-> pruned]
        ELSE [dup |-> FALSE, recent_error_hashes |-> DictSet(pruned, error_hash, now)]

-----------------------------------------------------------------------------
(* Cooldown and history store *)

NoTime == -1     \* a datetime that is None
NoId == ""       \* an identifier or URL that is None or empty

\* _check_pr_merge_cooldown with the comparison the wrong way round.
CheckPrMergeCooldownInverted(resolved, error_hash, now) ==
    IF error_hash \notin DOMAIN resolved
    THEN [in_cooldown |-> FALSE, cooldown_ends_at |-> NoTime, pr_url |-> NoId]
    ELSE LET r == resolved[error_hash]
             cooldown_ends_at == r.resolved_at + PR_MERGE_COOLDOWN_SECONDS
         IN  IF r.resolved_at # NoTime /\ now > cooldown_ends_at
             THEN [in_cooldown |-> TRUE, cooldown_ends_at |-> cooldown_ends_at,
                   pr_url |-> r.pr_url]
             ELSE [in_cooldown |-> FALSE, cooldown_ends_at |-> NoTime, pr_url |-> NoId]

\* _check_pr_merge_cooldown
CheckPrMergeCooldown(resolved, error_hash, now) ==
    IF error_hash \notin DOMAIN resolved
    THEN [in_cooldown |-> FALSE, cooldown_ends_at |-> NoTime, pr_url |-> NoId]
    ELSE LET r == resolved[error_hash]
             cooldown_ends_at == r.resolved_at + PR_MERGE_COOLDOWN_SECONDS
         IN  IF r.resolved_at # NoTime /\ now < cooldown_ends_at
             THEN [in_cooldown |-> TRUE, cooldown_ends_at |-> cooldown_ends_at,
                   pr_url |-> r.pr_url]
             ELSE [in_cooldown |-> FALSE, cooldown_ends_at |-> NoTime, pr_url |-> NoId]

\* _check_active_session
CheckActiveSession(active, error_hash) == DictGet(active, error_hash, NoId)

SessionUrl(session_id) == <<"https://app.devin.ai/sessions/", session_id>>

RECURSIVE SumOccurrences(_)
SumOccurrences(attempts) ==
    IF attempts = <<>> THEN 0
    ELSE Head(attempts).occurrence_count + SumOccurrences(Tail(attempts))

RECURSIVE MinCreated(_)
MinCreated(attempts) ==
    IF Len(attempts) = 1 THEN attempts[1].created_at
    ELSE LET m == MinCreated(Tail(attempts))
         IN  IF attempts[1].created_at <= m THEN attempts[1].created_at ELSE m

\* _get_historical_context
GetHistoricalContext(history, error_hash) ==
    IF error_hash \notin DOMAIN history \/ DictGet(history, error_hash, <<>>) = <<>>
    THEN [has_history |-> FALSE, previous_attempts |-> <<>>,
          total_occurrences |-> 0, first_seen |-> NoTime]
    ELSE LET attempts == history[error_hash]
         IN  [has_history |-> TRUE, previous_attempts |-> attempts,
              total_occurrences |-> SumOccurrences(attempts),
              first_seen |-> MinCreated(attempts)]

\* _record_attempt assigning the list instead of appending to it.
RecordAttemptOverwrites(history, active, error_hash, session_id, session_url, now) ==
    LET attempt == [session_id |-> session_id, session_url |-> session_url,
                    pr_url |-> NoId, status |-> "in_progress", created_at |-> now,
                    resolved_at |-> NoTime, resolution_notes |-> <<>>,
                    occurrence_count |-> 1]
    IN  [error_history   |-> DictSet(history, error_hash, <<attempt>>),
         active_sessions |-> DictSet(active, error_hash, session_id)]

\* _record_attempt
RecordAttempt(history, active, error_hash, session_id, session_url, now) ==
    LET attempt == [session_id |-> session_id, session_url |-> session_url,
                    pr_url |-> NoId, status |-> "in_progress", created_at |-> now,
                    resolved_at |-> NoTime, resolution_notes |-> <<>>,
                    occurrence_count |-> 1]
    IN  [error_history   |-> DictSet(history, error_hash,
                                Append(DictGet(history, error_hash, <<>>), attempt)),
         active_sessions |-> DictSet(active, error_hash, session_id)]

\* The position of the first attempt of the list with this session id, 0 if none.
FirstMatch(attempts, session_id) ==
    LET hits == {i \in 1..Len(attempts) : attempts[i].session_id = session_id}
    IN  IF hits = {} THEN 0 ELSE CHOOSE i \in hits : \A j \in hits : i <= j

\* mark_pr_merged without the removal of the active session.
MarkPrMergedKeepsActive(resolved, history, active, error_hash, pr_url, session_id, notes, now) ==
    LET attempts == DictGet(history, error_hash, <<>>)
        k == FirstMatch(attempts, session_id)
    IN  [resolved_errors |-> DictSet(resolved, error_hash,
                                [resolved_at |-> now, pr_url |-> pr_url,
                                 session_id |-> session_id, notes |-> notes]),
         error_history   |-> IF error_hash \in DOMAIN history /\ k # 0
                             THEN DictSet(history, error_hash,
                                    [attempts EXCEPT ![k] =
                                        [@ EXCEPT !.status = "resolved",
                                                  !.resolved_at = now,
                                                  !.pr_url = pr_url,
                                                  !.resolution_notes = notes]])
                             ELSE history,
         active_sessions |-> active]

\* mark_pr_merged
MarkPrMerged(resolved, history, active, error_hash, pr_url, session_id, notes, now) ==
    LET attempts == DictGet(history, error_hash, <<>>)
        k == FirstMatch(attempts, session_id)
    IN  [resolved_errors |-> DictSet(resolved, error_hash,
                                [resolved_at |-> now, pr_url |-> pr_url,
                                 session_id |-> session_id, notes |-> notes]),
         error_history   |-> IF error_hash \in DOMAIN history /\ k # 0
                             THEN DictSet(history, error_hash,
                                    [attempts EXCEPT ![k] =
                                        [@ EXCEPT !.status = "resolved",
                                                  !.resolved_at = now,
                                                  !.pr_url = pr_url,
                                                  !.resolution_notes = notes]])
                             ELSE history,
         active_sessions |-> DictDel(active, error_hash)]

\* clear_active_session dropping the sessions of every fingerprint.
ClearActiveSessionOfAll(active, error_hash) == EmptyDict

\* clear_active_session
ClearActiveSession(active, error_hash) == DictDel(active, error_hash)

-----------------------------------------------------------------------------
(* Repair prompt: _build_devin_prompt, _build_prompt_with_historical_context *)

\* The sections of the prompt that carry error content.
BuildDevinPrompt(error) ==
    [category      |-> error.category,
     event         |-> error.event,
     message       |-> error.message,
     code_location |-> error.code_location,
     stack_trace   |-> error.stack_trace,
     context       |-> error.context,
     recurring     |-> <<>>]

PromptAttempts == 5

\* history.previous_attempts[:5]
FirstAttempts(attempts) == SubSeq(attempts, 1, IF Len(attempts) < PromptAttempts
                                                THEN Len(attempts) ELSE PromptAttempts)

BuildPromptWithHistoricalContext(error, history) ==
    [BuildDevinPrompt(error) EXCEPT !.recurring =
        <<[total_occurrences |-> history.total_occurrences,
           first_seen        |-> history.first_seen,
           attempts          |-> FirstAttempts(history.previous_attempts)]>>]

-----------------------------------------------------------------------------
(* DevinIntegrationService.report_error_with_cooldown_and_history *)

ReportResult(success, session_id, session_url, error, skipped_reason, in_cooldown, cooldown_ends_at, has_historical_context) ==
    [success |-> success, notification_id |-> NoId,
     devin_session_id |-> session_id, devin_session_url |-> session_url,
     error |-> error, skipped_reason |-> skipped_reason,
     in_cooldown |-> in_cooldown, cooldown_ends_at |-> cooldown_ends_at,
     has_historical_context |-> has_historical_context]

\* What a call of the service returns to the model: the state it leaves, its
\* ReportResult, the statement it returned from, and the request it POSTed.
Outcome(svc, result, stage, request) ==
    [svc |-> svc, result |-> result, stage |-> stage,
     posted |-> request # <<>>, request |-> request]

NoResponse == [kind |-> "none", session_id |-> NoId]

\* The call did not return: the exception exc left it.
Raised(exc) == [raised |-> exc]

\* is_enabled.  disabled: os.getenv("DISABLE_DEVIN_AUTO_REVIEW", "").
IsEnabled(disabled) == Lower(disabled) \notin {"true", "1", "yes"}

\* The checks with the rate limiter asked before the duplicate check: a
\* report it denies leaves the deduplication map as it was.
AdmissionQuotaFirst(svc, error_hash, env, now) ==
    LET cd   == CheckPrMergeCooldown(svc.resolved_errors, error_hash, now)
        active_session_id == CheckActiveSession(svc.active_sessions, error_hash)
        rl   == CheckRateLimit(svc.request_counts, svc.last_request_reset, now)
        svc1 == [svc EXCEPT !.request_counts = rl.request_counts,
                            !.last_request_reset = rl.last_request_reset]
        dd   == CheckDuplicate(svc1.recent_error_hashes, error_hash, now)
        svc2 == [svc1 EXCEPT !.recent_error_hashes = dd.recent_error_hashes]
        stop(stage, s) == [stage |-> stage, svc |-> s, cd |-> cd,
                           active_session_id |-> active_session_id]
    IN  IF ~IsEnabled(env.disabled) THEN stop("disabled", svc)
        ELSE IF ~env.api_key THEN stop("no_api_key", svc)
        ELSE IF cd.in_cooldown THEN stop("cooldown", svc)
        ELSE IF active_session_id # NoId THEN stop("active", svc)
        ELSE IF ~rl.ok THEN stop("rate_limit", svc1)
        ELSE IF dd.dup THEN stop("duplicate", svc2)
        ELSE stop("admitted", svc2)

\* The checks with the API key looked up last.
AdmissionKeyLast(svc, error_hash, env, now) ==
    LET cd   == CheckPrMergeCooldown(svc.resolved_errors, error_hash, now)
        active_session_id == CheckActiveSession(svc.active_sessions, error_hash)
        dd   == CheckDuplicate(svc.recent_error_hashes, error_hash, now)
        svc1 == [svc EXCEPT !.recent_error_hashes = dd.recent_error_hashes]
        rl   == CheckRateLimit(svc1.request_counts, svc1.last_request_reset, now)
        svc2 == [svc1 EXCEPT !.request_counts = rl.request_counts,
                             !.last_request_reset = rl.last_request_reset]
        stop(stage, s) == [stage |-> stage, svc |-> s, cd |-> cd,
                           active_session_id |-> active_session_id]
    IN  IF ~IsEnabled(env.disabled) THEN stop("disabled", svc)
        ELSE IF cd.in_cooldown THEN stop("cooldown", svc)
        ELSE IF active_session_id # NoId THEN stop("active", svc)
        ELSE IF dd.dup THEN stop("duplicate", svc1)
        ELSE IF ~rl.ok THEN stop("rate_limit", svc2)
        ELSE IF ~env.api_key THEN stop("no_api_key", svc2)
        ELSE stop("admitted", svc2)

\* The checks with the deduplication window consulted first.
AdmissionDedupFirst(svc, error_hash, env, now) ==
    LET cd   == CheckPrMergeCooldown(svc.resolved_errors, error_hash, now)
        active_session_id == CheckActiveSession(svc.active_sessions, error_hash)
        dd   == CheckDuplicate(svc.recent_error_hashes, error_hash, now)
        svc1 == [svc EXCEPT !.recent_error_hashes = dd.recent_error_hashes]
        rl   == CheckRateLimit(svc1.request_counts, svc1.last_request_reset, now)
        svc2 == [svc1 EXCEPT !.request_counts = rl.request_counts,
                             !.last_request_reset = rl.last_request_reset]
        stop(stage, s) == [stage |-> stage, svc |-> s, cd |-> cd,
                           active_session_id |-> active_session_id]
    IN  IF ~IsEnabled(env.disabled) THEN stop("disabled", svc)
        ELSE IF ~env.api_key THEN stop("no_api_key", svc)
        ELSE IF dd.dup THEN stop("duplicate", svc1)
        ELSE IF cd.in_cooldown THEN stop("cooldown", svc1)
        ELSE IF active_session_id # NoId THEN stop("active", svc1)
        ELSE IF ~rl.ok THEN stop("rate_limit", svc2)
        ELSE stop("admitted", svc2)

\* env: the environment variables as read by this call: disabled is the value
\* of DISABLE_DEVIN_AUTO_REVIEW ("" if unset), api_key whether DEVIN_API_KEY
\* is set.
\*
\* The checks a report goes through before anything is built or sent, in the
\* order of the code; a check is made, and leaves its mark on the state, only
\* if the ones before it let the report through.
Admission(svc, error_hash, env, now) ==
    LET cd   == CheckPrMergeCooldown(svc.resolved_errors, error_hash, now)
        active_session_id == CheckActiveSession(svc.active_sessions, error_hash)
        dd   == CheckDuplicate(svc.recent_error_hashes, error_hash, now)
        svc1 == [svc EXCEPT !.recent_error_hashes = dd.recent_error_hashes]
        rl   == CheckRateLimit(svc1.request_counts, svc1.last_request_reset, now)
        svc2 == [svc1 EXCEPT !.request_counts = rl.request_counts,
                             !.last_request_reset = rl.last_request_reset]
        stop(stage, s) == [stage |-> stage, svc |-> s, cd |-> cd,
                           active_session_id |-> active_session_id]
    IN  IF ~IsEnabled(env.disabled) THEN stop("disabled", svc)
        ELSE IF ~env.api_key THEN stop("no_api_key", svc)
        ELSE IF cd.in_cooldown THEN stop("cooldown", svc)
        ELSE IF active_session_id # NoId THEN stop("active", svc)
        ELSE IF dd.dup THEN stop("duplicate", svc1)
        ELSE IF ~rl.ok THEN stop("rate_limit", svc2)
        ELSE stop("admitted", svc2)

\* What the report does after the checks, whose outcome is adm.  resp: the
\* repair service's answer to the POST, if the call gets that far.
ReportAfterAdmission(adm, error, resp, now) ==
    LET error_hash == GenerateErrorHash(error)
        cd   == adm.cd
        active_session_id == adm.active_session_id
        svc2 == adm.svc
        history == GetHistoricalContext(svc2.error_history, error_hash)
        sanitized_error == SanitizeError(error)
        with_history == history.has_history /\ history.previous_attempts # <<>>
        prompt == IF with_history
                  THEN BuildPromptWithHistoricalContext(sanitized_error, history)
                  ELSE BuildDevinPrompt(sanitized_error)
        request == <<[prompt |-> prompt, repo |-> "JurisTechLLC/OpenDevin"]>>
        session_id  == resp.session_id
        session_url == SessionUrl(session_id)
        rec  == RecordAttempt(svc2.error_history, svc2.active_sessions,
                              error_hash, session_id, session_url, now)
        svc3 == [svc2 EXCEPT !.error_history = rec.error_history,
                             !.active_sessions = rec.active_sessions]
    IN  IF adm.stage = "disabled" THEN
            Outcome(adm.svc, ReportResult(FALSE, NoId, <<>>, <<>>,
                        <<"Devin auto-review is disabled via DISABLE_DEVIN_AUTO_REVIEW">>,
                        FALSE, NoTime, FALSE), adm.stage, <<>>)
        ELSE IF adm.stage = "no_api_key" THEN
            Outcome(adm.svc, ReportResult(FALSE, NoId, <<>>, <<"No Devin API key configured">>,
                        <<>>, FALSE, NoTime, FALSE), adm.stage, <<>>)
        ELSE IF adm.stage = "cooldown" THEN
            Outcome(adm.svc, ReportResult(TRUE, NoId, <<>>, <<>>,
                        <<"PR merge cooldown active until", cd.cooldown_ends_at,
                          "A fix was recently merged", cd.pr_url>>,
                        TRUE, cd.cooldown_ends_at, FALSE), adm.stage, <<>>)
        ELSE IF adm.stage = "active" THEN
            Outcome(adm.svc, ReportResult(TRUE, active_session_id, SessionUrl(active_session_id),
                        <<>>, <<"Active session", active_session_id,
                                "already working on this error">>,
                        FALSE, NoTime, FALSE), adm.stage, <<>>)
        ELSE IF adm.stage = "duplicate" THEN
            Outcome(adm.svc, ReportResult(FALSE, NoId, <<>>, <<>>,
                        <<"Duplicate error within deduplication window">>,
                        FALSE, NoTime, FALSE), adm.stage, <<>>)
        ELSE IF adm.stage = "rate_limit" THEN
            Outcome(adm.svc, ReportResult(FALSE, NoId, <<>>, <<>>, <<"Rate limit exceeded">>,
                        FALSE, NoTime, FALSE), adm.stage, <<>>)
        ELSE IF JsonDumpsRaises(sanitized_error.context) THEN
            Outcome(svc2, Raised("TypeError"), "raised", <<>>)
        ELSE IF resp.kind = "cancelled" THEN
            \* asyncio.CancelledError is no Exception: "except Exception" lets it pass
            Outcome(svc2, Raised("CancelledError"), "cancelled", request)
        ELSE IF resp.kind = "non200" THEN
            Outcome(svc2, ReportResult(FALSE, NoId, <<>>, <<"Devin API error: ", "status">>,
                        <<>>, FALSE, NoTime, FALSE), "upstream_error", request)
        ELSE IF resp.kind = "exception" THEN
            Outcome(svc2, ReportResult(FALSE, NoId, <<>>, <<"str(e)">>,
                        <<>>, FALSE, NoTime, FALSE), "upstream_error", request)
        ELSE
            Outcome(svc3, ReportResult(TRUE, session_id, session_url, <<>>, <<>>,
                        FALSE, NoTime, with_history), "dispatched", request)

\* report_error_with_cooldown_and_history: the checks, then the rest.
ReportErrorWithCooldownAndHistory(svc, error, env, resp, now) ==
    CHOOSE out \in {ReportAfterAdmission(adm, error, resp, now) :
                        adm \in {Admission(svc, GenerateErrorHash(error), env, now)}} : TRUE

-----------------------------------------------------------------------------
(* DevinIntegrationService.report_error and its synchronous wrapper *)

\* _call_devin_api: the session id of the DevinSessionResponse it returns, in
\* a one-element sequence, or << >> for None (the prompt could not be built,
\* the POST failed, or the answer was not a 200).
CallDevinApi(sanitized_error, resp) ==
    IF JsonDumpsRaises(sanitized_error.context) THEN [session |-> <<>>, request |-> <<>>]
    ELSE [session |-> IF resp.kind = "ok" THEN <<resp.session_id>> ELSE <<>>,
          request |-> <<[prompt |-> BuildDevinPrompt(sanitized_error),
                         repo |-> "JurisTechLLC/OpenDevin"]>>]

\* report_error: enabled, API key, deduplication window, hourly quota, then
\* the POST.  It consults neither _resolved_errors nor _active_sessions and
\* records no attempt.
ReportError(svc, error, env, resp, now) ==
    LET error_hash == GenerateErrorHash(error)
        dd   == CheckDuplicate(svc.recent_error_hashes, error_hash, now)
        svc1 == [svc EXCEPT !.recent_error_hashes = dd.recent_error_hashes]
        rl   == CheckRateLimit(svc1.request_counts, svc1.last_request_reset, now)
        svc2 == [svc1 EXCEPT !.request_counts = rl.request_counts,
                             !.last_request_reset = rl.last_request_reset]
        api  == CallDevinApi(SanitizeError(error), resp)
    IN  IF ~IsEnabled(env.disabled) THEN
            Outcome(svc, ReportResult(FALSE, NoId, <<>>, <<>>,
                        <<"Devin auto-review is disabled via DISABLE_DEVIN_AUTO_REVIEW">>,
                        FALSE, NoTime, FALSE), "disabled", <<>>)
        ELSE IF ~env.api_key THEN
            Outcome(svc, ReportResult(FALSE, NoId, <<>>, <<"No Devin API key configured">>,
                        <<>>, FALSE, NoTime, FALSE), "no_api_key", <<>>)
        ELSE IF dd.dup THEN
            Outcome(svc1, ReportResult(FALSE, NoId, <<>>, <<>>,
                        <<"Duplicate error within deduplication window">>,
                        FALSE, NoTime, FALSE), "duplicate", <<>>)
        ELSE IF ~rl.ok THEN
            Outcome(svc2, ReportResult(FALSE, NoId, <<>>, <<>>, <<"Rate limit exceeded">>,
                        FALSE, NoTime, FALSE), "rate_limit", <<>>)
        ELSE IF api.session = <<>> THEN
            Outcome(svc2, ReportResult(FALSE, NoId, <<>>, <<"Failed to create Devin session">>,
                        <<>>, FALSE, NoTime, FALSE), "upstream_error", api.request)
        ELSE
            Outcome(svc2, ReportResult(TRUE, api.session[1], SessionUrl(api.session[1]),
                        <<>>, <<>>, FALSE, NoTime, FALSE), "dispatched", api.request)

\* report_error_sync.  wrapper: "ran" (the coroutine ran to its end and its
\* result came back), "timeout" (future.result(timeout=60) raised; leaving
\* the executor's with block still waits for the coroutine to end), "no_loop"
\* (asyncio.get_event_loop() raised before the coroutine was started).
ReportErrorSync(svc, error, env, resp, now, wrapper) ==
    IF wrapper = "no_loop" THEN
        Outcome(svc, ReportResult(FALSE, NoId, <<>>, <<"str(e)", "RuntimeError">>,
                    <<>>, FALSE, NoTime, FALSE), "raised", <<>>)
    ELSE LET out == CHOOSE o \in {ReportError(svc, error, env, resp, now)} : TRUE
         IN  IF wrapper = "timeout" THEN
                 Outcome(out.svc, ReportResult(FALSE, NoId, <<>>, <<"str(e)", "TimeoutError">>,
                             <<>>, FALSE, NoTime, FALSE), "raised", out.request)
             ELSE out

-----------------------------------------------------------------------------
(* DevinMonitoringListener *)

\* _report_error_observation: the ErrorContext made of an ErrorObservation.
ErrorObservationContext(content, error_id) ==
    [category |-> <<"agent_error">>, event |-> <<"error_observation">>,
     message |-> content, stack_trace |-> <<>>, code_location |-> <<>>,
     context |-> DictSet(DictSet(EmptyDict,
                    <<"error_id">>, [t |-> "str", v |-> error_id]),
                    <<"observation_type">>, [t |-> "str", v |-> <<"error">>]),
     severity |-> "ERROR"]

\* on_agent_session_start(success = False, duration): the ErrorContext made.
SessionStartContext(duration) ==
    [category |-> <<"agent_session">>, event |-> <<"start_failure">>,
     message |-> <<"Agent session failed to start after", duration, "seconds">>,
     stack_trace |-> <<>>, code_location |-> <<>>,
     context |-> DictSet(DictSet(EmptyDict,
                    <<"duration_seconds">>, [t |-> "other", v |-> duration]),
                    <<"success">>, [t |-> "other", v |-> "False"]),
     severity |-> "ERROR"]

\* _report_to_devin: nothing if the feature is disabled, else
\* report_error_sync; the result is logged and dropped, and an exception is
\* logged and dropped too.
ReportToDevin(svc, error_context, env, resp, now, wrapper) ==
    IF ~IsEnabled(env.disabled) THEN Outcome(svc, <<>>, "disabled", <<>>)
    ELSE ReportErrorSync(svc, error_context, env, resp, now, wrapper)

-----------------------------------------------------------------------------
(* IntelligentErrorAnalyzerService *)

\* _get_active_devin_sessions: one work item per entry of _active_sessions.
GetActiveDevinSessions(active) ==
    {[type |-> "devin_session", id |-> active[h]] : h \in DOMAIN active}

\* _get_open_unmerged_prs.  github: "no_token", "error" (non-200, transport
\* failure, bad repo slug) or "open_prs" (the code-hosting service lists PR 7).
GetOpenUnmergedPrs(github) ==
    IF github = "open_prs" THEN {[type |-> "open_pr", id |-> "7"]} ELSE {}

\* _format_error_for_analysis: the sections of the text that carry error content.
FormatErrorForAnalysis(error) ==
    [category      |-> error.category,
     event         |-> error.event,
     message       |-> error.message,
     severity      |-> error.severity,
     code_location |-> error.code_location,
     stack_trace   |-> error.stack_trace,
     context       |-> error.context]

ValidCategories == {"SECURITY", "FUNCTIONAL", "DATA_INTEGRITY", "USER_EXPERIENCE",
                    "PERFORMANCE", "OTHER"}
ValidSeverities == {"DEBUG", "INFO", "WARNING", "ERROR", "CRITICAL"}

\* str.upper() on the category and severity words of the model.
Upper(word) ==
    CASE word = "functional" -> "FUNCTIONAL"
      [] word = "critical"   -> "CRITICAL"
      [] word = "error"      -> "ERROR"
      [] word = "info"       -> "INFO"
      [] OTHER               -> word

\* _validate_category
ValidateCategory(category) ==
    LET normalized == IF category # "" THEN Upper(category) ELSE "OTHER"
    IN  IF normalized \in ValidCategories THEN normalized ELSE "OTHER"

\* _validate_severity
ValidateSeverity(severity) ==
    LET normalized == IF severity # "" THEN Upper(severity) ELSE "ERROR"
    IN  IF normalized \in ValidSeverities THEN normalized ELSE "ERROR"

\* A default analysis that holds the error back.
DefaultAnalysisHoldsBack(root_cause) ==
    [root_cause |-> root_cause, category |-> "OTHER", severity |-> "ERROR",
     is_duplicate_of_active_work |-> TRUE, matching_active_work |-> <<>>,
     confidence |-> 0]

\* The RootCauseAnalysis built where the classifier could not be used.
\* confidence is in hundredths.
DefaultAnalysis(root_cause) ==
    [root_cause |-> root_cause, category |-> "OTHER", severity |-> "ERROR",
     is_duplicate_of_active_work |-> FALSE, matching_active_work |-> <<>>,
     confidence |-> 0]

\* _parse_analysis_response.  text.json = FALSE: json.loads raises, or the
\* value is no object.  Otherwise the fields of the parsed object.
ParseAnalysisResponse(text, active_work) ==
    IF ~text.json THEN DefaultAnalysis(<<"Failed to parse AI analysis">>)
    ELSE LET hits == {w \in active_work : w.id = text.matchingActiveWorkId}
             matching == IF text.matchingActiveWorkId # NoId
                            /\ text.isDuplicateOfActiveWork /\ hits # {}
                         THEN <<CHOOSE w \in hits : TRUE>> ELSE <<>>
         IN  [root_cause |-> text.rootCause,
              category   |-> ValidateCategory(text.category),
              severity   |-> ValidateSeverity(text.severity),
              is_duplicate_of_active_work |-> text.isDuplicateOfActiveWork,
              matching_active_work |-> matching,
              confidence |-> IF text.confidence_is_number THEN text.confidence ELSE 50]

\* analyze_error.  anthropic_key: ANTHROPIC_API_KEY is set.  reply: what the
\* classifier endpoint does with the request.  raised: the call ended in an
\* exception (_format_error_for_analysis is called outside the try block).
AnalyzeError(active, error, anthropic_key, github, reply) ==
    LET all_active_work == GetActiveDevinSessions(active) \cup GetOpenUnmergedPrs(github)
        request == <<[error |-> FormatErrorForAnalysis(error),
                      active_work |-> all_active_work]>>
    IN  IF ~anthropic_key
        THEN [analysis |-> DefaultAnalysis(<<"API key not configured">>),
              request |-> <<>>, active_work |-> {}, raised |-> FALSE]
        ELSE IF JsonDumpsRaises(error.context)
        THEN [analysis |-> Raised("TypeError"),
              request |-> <<>>, active_work |-> all_active_work, raised |-> TRUE]
        ELSE IF reply.http = "cancelled"
        THEN [analysis |-> Raised("CancelledError"),
              request |-> request, active_work |-> all_active_work, raised |-> TRUE]
        ELSE IF reply.http # "200"
        THEN [analysis |-> DefaultAnalysis(<<"Analysis failed: ", reply.http>>),
              request |-> request, active_work |-> all_active_work, raised |-> FALSE]
        ELSE [analysis |-> ParseAnalysisResponse(reply.text, all_active_work),
              request |-> request, active_work |-> all_active_work, raised |-> FALSE]

\* should_send_for_repair ignoring the classifier's verdict.
ShouldSendRegardless(analysis) == TRUE

\* should_send_for_repair
ShouldSendForRepair(analysis) == ~analysis.is_duplicate_of_active_work

-----------------------------------------------------------------------------
(* ErrorRouterService *)

SeverityLevel(severity) ==
    CASE severity = "DEBUG"    -> 0
      [] severity = "INFO"     -> 1
      [] severity = "WARNING"  -> 2
      [] severity = "ERROR"    -> 3
      [] severity = "CRITICAL" -> 4
      [] OTHER                 -> 3

\* _meets_min_severity
MeetsMinSeverity(severity, min_severity) ==
    SeverityLevel(severity) >= SeverityLevel(min_severity)

RoutingResult(success, session_id, session_url, linked_to_existing, error, skipped_reason, ai_analysis) ==
    [success |-> success, router |-> "devin", notification_id |-> NoId,
     devin_session_id |-> session_id, devin_session_url |-> session_url,
     linked_to_existing |-> linked_to_existing, error |-> error,
     skipped_reason |-> skipped_reason, ai_analysis |-> ai_analysis]

\* What route_error hands back to the model: the service state it leaves, its
\* RoutingResult, where it returned, and the outbound requests it made.
\* raised: the call ended in an exception instead of returning result.
Routed(svc, result, stage, ai_request, devin_request, report) ==
    [svc |-> svc, result |-> result, stage |-> stage,
     ai_request |-> ai_request, devin_request |-> devin_request,
     classifier |-> ai_request # <<>>, posted |-> devin_request # <<>>,
     report |-> report, raised |-> FALSE]

\* _route_to_devin without its except clause: an exception of the report
\* leaves the call.
RoutedReportWithoutExcept(out, ai_analysis, ai_request) ==
    LET r == out.result
    IN  IF out.stage \in {"raised", "cancelled"}
        THEN [Routed(out.svc, r, out.stage, ai_request, out.request, <<>>)
                 EXCEPT !.raised = TRUE]
        ELSE Routed(out.svc,
                    RoutingResult(r.success, r.devin_session_id, r.devin_session_url, FALSE,
                                  r.error, r.skipped_reason, ai_analysis),
                    out.stage, ai_request, out.request, <<r>>)

\* _route_to_devin
\* The RoutingResult _route_to_devin makes of the report's outcome; of an
\* exception it makes a failure whose error is str(e).  The cancellation of
\* the call (asyncio.CancelledError, a BaseException) is not caught.
RoutedReport(out, ai_analysis, ai_request) ==
    LET r == out.result
    IN  IF out.stage = "cancelled"
        THEN [Routed(out.svc, r, out.stage, ai_request, out.request, <<>>)
                 EXCEPT !.raised = TRUE]
        ELSE IF out.stage = "raised"
        THEN Routed(out.svc,
                    RoutingResult(FALSE, NoId, <<>>, FALSE, <<"str(e)", r.raised>>, <<>>,
                                  ai_analysis),
                    out.stage, ai_request, out.request, <<>>)
        ELSE Routed(out.svc,
                    RoutingResult(r.success, r.devin_session_id, r.devin_session_url, FALSE,
                                  r.error, r.skipped_reason, ai_analysis),
                    out.stage, ai_request, out.request, <<r>>)

RouteToDevin(svc, error, ai_analysis, ai_request, env, resp, now) ==
    CHOOSE routed \in {RoutedReport(out, ai_analysis, ai_request) :
                          out \in {ReportErrorWithCooldownAndHistory(svc, error, env, resp, now)}} :
        TRUE

\* The return of route_error for an error the classifier calls a duplicate,
\* with the sessions the service tracks dropped on the way.
AiDuplicateDropsSessions(svc, analysis, ai_request) ==
    Routed([svc EXCEPT !.active_sessions = EmptyDict],
           RoutingResult(FALSE, NoId, <<>>, TRUE,
                         <<"Duplicate of active work: ", analysis.matching_active_work>>,
                         <<>>, <<analysis>>),
           "ai_duplicate", ai_request, <<>>, <<>>)

\* "if not should_send": the return of route_error for an error the
\* classifier calls a duplicate of active work.
AiDuplicate(svc, analysis, ai_request) ==
    Routed(svc,
           RoutingResult(FALSE, NoId, <<>>, TRUE,
                         <<"Duplicate of active work: ", analysis.matching_active_work>>,
                         <<>>, <<analysis>>),
           "ai_duplicate", ai_request, <<>>, <<>>)

\* The "ai_analysis" entry route_error adds to the context.
EnrichedContext(context, analysis) ==
    DictSet(context, <<"ai_analysis">>,
        [t |-> "dict", v |->
            DictSet(DictSet(DictSet(EmptyDict,
                <<"root_cause">>, [t |-> "str", v |-> analysis.root_cause]),
                <<"category">>,   [t |-> "str", v |-> <<analysis.category>>]),
                <<"severity">>,   [t |-> "str", v |-> <<analysis.severity>>])])

\* route_error.  cfg: the ErrorRouterConfig in force.  env: the environment
\* variables as read by this call.  reply, resp: the classifier's and the
\* repair service's answers, used if the call gets that far.
RouteError(svc, error, cfg, env, reply, resp, now) ==
    IF ~MeetsMinSeverity(error.severity, cfg.min_severity) THEN
        Routed(svc, RoutingResult(FALSE, NoId, <<>>, FALSE,
                        <<"Severity", error.severity, "below threshold", cfg.min_severity>>,
                        <<>>, <<>>),
               "severity", <<>>, <<>>, <<>>)
    ELSE IF ~cfg.enable_devin THEN
        Routed(svc, RoutingResult(FALSE, NoId, <<>>, FALSE,
                        <<"Devin integration is disabled">>, <<>>, <<>>),
               "devin_disabled", <<>>, <<>>, <<>>)
    ELSE IF cfg.enable_ai_analysis THEN
        LET an == AnalyzeError(svc.active_sessions, error, env.anthropic_key,
                               env.github, reply)
            analysis == an.analysis
        IN  IF an.raised /\ analysis.raised = "CancelledError" THEN
                \* not caught by "except Exception": the call ends in the exception
                [Routed(svc, analysis, "ai_cancelled", an.request, <<>>, <<>>)
                    EXCEPT !.raised = TRUE]
            ELSE IF an.raised THEN
                \* except Exception: fall back to routing without the analysis
                RouteToDevin(svc, error, <<>>, <<>>, env, resp, now)
            ELSE IF ~ShouldSendForRepair(analysis) THEN
                AiDuplicate(svc, analysis, an.request)
            ELSE
                RouteToDevin(svc,
                             [error EXCEPT !.context = EnrichedContext(error.context, analysis)],
                             <<analysis>>, an.request, env, resp, now)
    ELSE
        RouteToDevin(svc, error, <<>>, <<>>, env, resp, now)

-----------------------------------------------------------------------------
(* The calls the model makes *)

AuthContext ==
    DictSet(DictSet(EmptyDict,
        <<"access_", "token">>, [t |-> "str", v |-> <<"tok123">>]),
        <<"detail">>,           [t |-> "str", v |-> <<"login", " ", "of", " ", "alice@example.com">>])

ErrAuth ==
    [category |-> <<"agent_error">>, event |-> <<"auth">>,
     message |-> <<"auth", " ", "failed", " ", "for", " ", "alice@example.com", " ", "using", " ",
                 "Bearer", " ", "abc.def.ghi">>,
     stack_trace |-> <<"File", " ", "/", "home", "/", "alice", "/", "app.py", " ", "from", " ",
                     "10.0.0.7">>,
     code_location |-> <<"app.py:10">>, context |-> AuthContext,
     severity |-> "ERROR", source_repo |-> NoId]

ErrSlow ==
    [category |-> <<"agent_error">>, event |-> <<"timeout">>,
     message |-> <<"request", " ", "took", " ", "30s">>, stack_trace |-> <<>>,
     code_location |-> <<>>, context |-> EmptyDict,
     severity |-> "CRITICAL", source_repo |-> NoId]

\* The same error reported below the default threshold.
ErrAuthInfo == [ErrAuth EXCEPT !.severity = "INFO"]

\* The errors the calls of Spec report; they have one fingerprint.
Errors == {ErrAuth, ErrAuthInfo}

Hashes == {GenerateErrorHash(e) : e \in Errors}

DefaultConfig == [enable_devin |-> TRUE, min_severity |-> "ERROR", enable_ai_analysis |-> TRUE]

DefaultEnv == [disabled |-> "", api_key |-> TRUE, anthropic_key |-> TRUE,
               github |-> "open_prs"]

NoText == [json |-> FALSE, rootCause |-> <<>>, category |-> "", severity |-> "",
           isDuplicateOfActiveWork |-> FALSE, matchingActiveWorkId |-> NoId,
           confidence_is_number |-> FALSE, confidence |-> 0]

NoReply == [http |-> "none", text |-> NoText]

NewText == [NoText EXCEPT !.json = TRUE, !.rootCause = <<"scheduler stalls">>,
                          !.category = "functional", !.severity = "critical",
                          !.confidence_is_number = TRUE, !.confidence = 90]

DupText(id) == [NewText EXCEPT !.isDuplicateOfActiveWork = TRUE, !.matchingActiveWorkId = id]

Reply200(text) == [http |-> "200", text |-> text]

\* A call's surroundings: the router's configuration, the environment
\* variables, and the classifier's answer.
Call(cfg, env, reply) == [cfg |-> cfg, env |-> env, reply |-> reply]

AiOff    == Call([DefaultConfig EXCEPT !.enable_ai_analysis = FALSE], DefaultEnv, NoReply)
AiNoKey  == Call(DefaultConfig, [DefaultEnv EXCEPT !.anthropic_key = FALSE], NoReply)
AiDown   == Call(DefaultConfig, DefaultEnv, [http |-> "exception", text |-> NoText])
AiNon200 == Call(DefaultConfig, DefaultEnv, [http |-> "non200", text |-> NoText])
AiBadJson == Call(DefaultConfig, [DefaultEnv EXCEPT !.github = "error"], Reply200(NoText))
AiNew    == Call(DefaultConfig, DefaultEnv, Reply200(NewText))
AiDupOfPr == Call(DefaultConfig, DefaultEnv, Reply200(DupText("7")))
AiDupOfSession == Call(DefaultConfig, [DefaultEnv EXCEPT !.github = "no_token"],
                       Reply200(DupText("s1")))

\* DISABLE_DEVIN_AUTO_REVIEW is set; DEVIN_API_KEY is not set; the router is
\* configured with enable_devin = False.
DevinDisabled == Call(DefaultConfig, [DefaultEnv EXCEPT !.disabled = "true"], Reply200(NewText))
NoDevinKey    == Call(DefaultConfig, [DefaultEnv EXCEPT !.api_key = FALSE], Reply200(NewText))
RouterOff     == Call([DefaultConfig EXCEPT !.enable_devin = FALSE], DefaultEnv, NoReply)

\* The surroundings the calls of Spec are made in.
CoreCalls == {AiOff, AiNoKey, AiDown, AiNon200, AiBadJson, AiNew, AiDupOfPr, AiDupOfSession,
              DevinDisabled, NoDevinKey, RouterOff}

\* Session ids the repair service answers with; NoId: the field is missing or empty.
ServiceSessionIds == {NoId, "s1"}

OkResponse(session_id) == [kind |-> "ok", session_id |-> session_id]

RepairResponses ==
    {OkResponse(sid) : sid \in ServiceSessionIds}
    \cup {[kind |-> k, session_id |-> NoId] : k \in {"non200", "exception"}}

\* The session ids mark_pr_merged is called with: none, and the one the service gives.
MergeSessionIds == {NoId, "s1"}
PrUrls == {"https://host/pr/7"}
Notes == {<<"fixed">>}

\* The instants at which calls are made, in seconds.
Schedule == <<0, 200, 3600, 3900, 7200>>

Instants == {Schedule[i] : i \in 1..MaxInstant}

Service ==
    [request_counts |-> request_counts, last_request_reset |-> last_request_reset,
     recent_error_hashes |-> recent_error_hashes, resolved_errors |-> resolved_errors,
     error_history |-> error_history, active_sessions |-> active_sessions]

\* The threads route_error_sync runs route_error in.
NumThreads == 2

Threads == 1..NumThreads

\* A thread that runs no call.  Otherwise pc names the statement the call in
\* the thread is to execute next, error is the error it routes, and count the
\* value _check_rate_limit read from _request_counts.
Idle == [pc |-> "idle", error |-> <<>>, count |-> 0]

\* The repair service created a session for this request.
Created(resp) == resp.kind = "ok"

\* sent after route(error) that returned r, the repair service answering resp.
SentAfterRoute(r, error_hash, resp) ==
    LET hour == clock \div HOUR_SECONDS
    IN  IF ~r.posted THEN sent
        ELSE [posted_at   |-> DictSet(sent.posted_at, error_hash, clock),
              outstanding |-> IF Created(resp) THEN sent.outstanding \cup {error_hash}
                              ELSE sent.outstanding,
              hour        |-> IF r.stage # "cancelled" /\ r.result.success
                              THEN hour ELSE sent.hour,
              in_hour     |-> IF r.stage = "cancelled" \/ ~r.result.success THEN sent.in_hour
                              ELSE IF hour = sent.hour THEN sent.in_hour + 1 ELSE 1]

\* How the classifier stage of a call went.
AiStage(r, call) ==
    IF r.raised THEN "off"
    ELSE IF r.result.ai_analysis = <<>> THEN "off"
    ELSE IF ~r.classifier THEN "no_key"
    ELSE IF call.reply.http # "200" \/ ~call.reply.text.json THEN "failed"
    ELSE IF r.result.ai_analysis[1].is_duplicate_of_active_work THEN "duplicate"
    ELSE "new"

Init ==
    /\ clock = 0
    /\ request_counts = EmptyDict
    /\ last_request_reset = clock
    /\ recent_error_hashes = EmptyDict
    /\ resolved_errors = EmptyDict
    /\ error_history = EmptyDict
    /\ active_sessions = EmptyDict
    /\ last = [op |-> "init"]
    /\ sent = [posted_at |-> EmptyDict, outstanding |-> {}, hour |-> 0, in_hour |-> 0]
    /\ parallel = [calls |-> [t \in Threads |-> Idle], admitted |-> 0]

\* The call leaves the service in the state svc.
Leaves(svc) ==
    /\ request_counts' = svc.request_counts
    /\ last_request_reset' = svc.last_request_reset
    /\ recent_error_hashes' = svc.recent_error_hashes
    /\ resolved_errors' = svc.resolved_errors
    /\ error_history' = svc.error_history
    /\ active_sessions' = svc.active_sessions

\* One call of ErrorRouterService.route_error, start to return, for an error
\* of errors in surroundings of calls, the repair service answering from
\* responses if it is asked.
RouteWith(errors, calls, responses) ==
    \E error \in errors, call \in calls :
      \E probe \in {RouteError(Service, error, call.cfg, call.env, call.reply,
                               NoResponse, clock)} :
      \E resp \in IF probe.posted THEN responses ELSE {NoResponse} :
      \E r \in {RouteError(Service, error, call.cfg, call.env, call.reply, resp, clock)} :
      LET error_hash == GenerateErrorHash(error)
      IN  /\ Leaves(r.svc)
          /\ last' = [op |-> "route", error |-> error, hash |-> error_hash,
                      call |-> call, resp |-> resp, stage |-> r.stage,
                      ai |-> AiStage(r, call), classifier |-> r.classifier,
                      posted |-> r.posted, result |-> r.result, raised |-> r.raised,
                      ai_request |-> r.ai_request, devin_request |-> r.devin_request,
                      report |-> r.report]
          /\ sent' = SentAfterRoute(r, error_hash, resp)
          /\ UNCHANGED <<clock, parallel>>

Route == RouteWith({ErrAuth}, CoreCalls, RepairResponses)

\* The same error reported with a severity below the router's threshold.
RouteBelowThreshold == RouteWith({ErrAuthInfo}, {AiNew}, RepairResponses)

\* One call of DevinIntegrationService.mark_pr_merged.
MarkMergedOf(hashes) ==
    \E error_hash \in hashes, pr_url \in PrUrls, session_id \in MergeSessionIds, notes \in Notes :
      LET m == MarkPrMerged(resolved_errors, error_history, active_sessions,
                            error_hash, pr_url, session_id, notes, clock)
      IN  /\ resolved_errors' = m.resolved_errors
          /\ error_history' = m.error_history
          /\ active_sessions' = m.active_sessions
          /\ last' = [op |-> "mark_pr_merged", hash |-> error_hash,
                      session_id |-> session_id, pr_url |-> pr_url, notes |-> notes]
          /\ sent' = [sent EXCEPT !.posted_at = DictDel(@, error_hash),
                                  !.outstanding = @ \ {error_hash}]
          /\ UNCHANGED <<clock, request_counts, last_request_reset, recent_error_hashes,
                         parallel>>

MarkMerged == MarkMergedOf(Hashes)

\* One call of DevinIntegrationService.clear_active_session.
ClearActiveOf(hashes) ==
    \E error_hash \in hashes :
      /\ active_sessions' = ClearActiveSession(active_sessions, error_hash)
      /\ last' = [op |-> "clear_active_session", hash |-> error_hash]
      /\ sent' = [sent EXCEPT !.outstanding = @ \ {error_hash}]
      /\ UNCHANGED <<clock, request_counts, last_request_reset, recent_error_hashes,
                     resolved_errors, error_history, parallel>>

ClearActive == ClearActiveOf(Hashes)

\* Time passes between calls: the clock moves to the next of the instants.
AdvanceIn(instants) ==
    /\ \E t \in instants : t > clock
    /\ clock' = CHOOSE t \in instants : t > clock /\ \A u \in instants : u > clock => t <= u
    /\ last' = [op |-> "advance"]
    /\ UNCHANGED <<request_counts, last_request_reset, recent_error_hashes,
                   resolved_errors, error_history, active_sessions, sent, parallel>>

Advance == AdvanceIn(Instants)

Next == Route \/ RouteBelowThreshold \/ MarkMerged \/ ClearActive \/ Advance

Spec == Init /\ [][Next]_vars

-----------------------------------------------------------------------------
(* A burst of distinct errors: the hourly quota *)

NumWorkers == 12

WorkerNames == <<"w1", "w2", "w3", "w4", "w5", "w6", "w7", "w8", "w9", "w10", "w11", "w12",
                 "w13">>

\* The k-th distinct error to be reported.
WorkerError(k) == [ErrSlow EXCEPT !.event = <<"crash">>,
                                  !.message = <<"worker", " ", "crashed", " ", WorkerNames[k]>>]

WorkerHash(k) == GenerateErrorHash(WorkerError(k))

\* The number of distinct errors reported so far.
Reported == Cardinality({k \in 1..NumWorkers : WorkerHash(k) \in DOMAIN recent_error_hashes
                                               \/ WorkerHash(k) \in DOMAIN error_history})

QuotaInstants == {0, 3600, 3900}

\* An error that was not reported before; the repair service accepts it.
RouteNew ==
    /\ Reported < NumWorkers
    /\ RouteWith({WorkerError(Reported + 1)}, {AiOff}, {OkResponse("s1")})

\* The first error is reported again.
RouteAgain ==
    /\ Reported >= 1
    /\ RouteWith({WorkerError(1)}, {AiOff}, {OkResponse("s1")})

MarkMergedFirst == MarkMergedOf({WorkerHash(1)})

ClearActiveFirst == ClearActiveOf({WorkerHash(1)})

AdvanceQuota == AdvanceIn(QuotaInstants)

NextQuota == RouteNew \/ RouteAgain \/ MarkMergedFirst \/ ClearActiveFirst \/ AdvanceQuota

SpecQuota == Init /\ [][NextQuota]_vars

\* The burst spread over the end of one clock hour and the start of the next.
RollingInstants == {0, 200, 3600}

AdvanceRolling == AdvanceIn(RollingInstants)

NextRolling == RouteNew \/ RouteAgain \/ AdvanceRolling

SpecRolling == Init /\ [][NextRolling]_vars

-----------------------------------------------------------------------------
(* Faults inside the helpers, and the monitoring listener *)

\* The error of ErrAuth with a context value json.dumps cannot serialize.
ErrOpaque ==
    [ErrAuth EXCEPT !.context = DictSet(AuthContext, <<"request">>, [t |-> "object", v |-> <<>>])]

\* The content of the ErrorObservation events.
Contents == {<<"tool", " ", "crashed", " ", "at", " ", "10.0.0.7">>}

\* How report_error_sync gets on with its event loop.
Wrappers == {"ran", "timeout", "no_loop"}

ListenerEnvs == {DefaultEnv, [DefaultEnv EXCEPT !.disabled = "Yes"],
                 [DefaultEnv EXCEPT !.api_key = FALSE]}

\* One callback of the listener that goes to _report_to_devin, start to return.
ListenerReports(callback, error_contexts) ==
    \E error_context \in error_contexts, env \in ListenerEnvs, wrapper \in Wrappers :
      \E probe \in {ReportToDevin(Service, error_context, env, NoResponse, clock, wrapper)} :
      \E resp \in IF probe.posted THEN RepairResponses ELSE {NoResponse} :
      \E out \in {ReportToDevin(Service, error_context, env, resp, clock, wrapper)} :
      LET error_hash == GenerateErrorHash(error_context)
      IN  /\ Leaves(out.svc)
          /\ last' = [op |-> "listener", callback |-> callback, error |-> error_context,
                      hash |-> error_hash, env |-> env, wrapper |-> wrapper, resp |-> resp,
                      stage |-> out.stage, posted |-> out.posted, report |-> out.result,
                      request |-> out.request, raised |-> FALSE]
          /\ sent' = SentAfterRoute(out, error_hash, resp)
          /\ UNCHANGED <<clock, parallel>>

\* A callback that reports nothing: an event that is no ErrorObservation, a
\* session start that succeeded.
ListenerIgnores(callback) ==
    /\ last' = [op |-> "listener", callback |-> callback, stage |-> "ignored",
                posted |-> FALSE, raised |-> FALSE]
    /\ UNCHANGED <<clock, request_counts, last_request_reset, recent_error_hashes,
                   resolved_errors, error_history, active_sessions, sent, parallel>>

\* DevinMonitoringListener.on_session_event(event)
OnSessionEvent ==
    \/ ListenerReports("on_session_event",
                       {ErrorObservationContext(content, <<"E1">>) : content \in Contents})
    \/ ListenerIgnores("on_session_event")

\* DevinMonitoringListener.on_agent_session_start(success, duration)
OnAgentSessionStart ==
    \/ ListenerReports("on_agent_session_start", {SessionStartContext("30.00")})
    \/ ListenerIgnores("on_agent_session_start")

\* The caller cancels the call while it awaits the classifier's answer; while
\* it awaits the repair service's answer.
AiCancelled == Call(DefaultConfig, DefaultEnv, [http |-> "cancelled", text |-> NoText])

CancelledResponse == [kind |-> "cancelled", session_id |-> NoId]

\* route_error for an error whose context cannot be serialized, and for one
\* whose context can, with the classifier off, without its key, and on.
RouteFaulty ==
    RouteWith({ErrOpaque, ErrAuth}, {AiOff, AiNoKey, AiNew, AiDown, AiCancelled},
              RepairResponses \cup {CancelledResponse})

NextFaults == RouteFaulty \/ OnSessionEvent \/ OnAgentSessionStart

SpecFaults == Init /\ [][NextFaults]_vars

-----------------------------------------------------------------------------
(* Calls of route_error in parallel threads.  route_error_sync hands          *)
(* route_error to asyncio.run in a thread of a ThreadPoolExecutor; the        *)
(* service takes no lock, so the statements of two calls interleave.  The     *)
(* calls are made at one instant, with the classifier off.                    *)

\* The errors a call in thread t may route: the first error, which every
\* thread may report, or the next error of the thread's own that was not
\* reported before.
ThreadErrors(t) ==
    LET own == {k \in 1..NumWorkers :
                   /\ k % NumThreads = t % NumThreads
                   /\ WorkerHash(k) \notin DOMAIN recent_error_hashes
                   /\ WorkerHash(k) \notin DOMAIN error_history}
    IN  {WorkerError(1)} \cup {WorkerError(k) : k \in {j \in own : \A i \in own : j <= i}}

Others == <<clock, resolved_errors, sent>>

\* A thread starts a call, which runs up to the membership test of
\* _check_duplicate: is_enabled, the API key, the cooldown, the active
\* session, the pruning of the dedup map and the lookup in it.
ThreadChecks(t) ==
    /\ parallel.calls[t].pc = "idle"
    /\ \E error \in ThreadErrors(t) :
         LET error_hash == GenerateErrorHash(error)
             cd == CheckPrMergeCooldown(resolved_errors, error_hash, clock)
             active_session_id == CheckActiveSession(active_sessions, error_hash)
             dt == DuplicateTest(recent_error_hashes, error_hash, clock)
             stage == IF cd.in_cooldown THEN "cooldown"
                      ELSE IF active_session_id # NoId THEN "active"
                      ELSE IF dt.dup THEN "duplicate" ELSE "passed"
         IN  /\ recent_error_hashes' = IF stage \in {"cooldown", "active"}
                                       THEN recent_error_hashes ELSE dt.recent_error_hashes
             /\ parallel' = [parallel EXCEPT !.calls[t] =
                                IF stage = "passed"
                                THEN [pc |-> "insert", error |-> error, count |-> 0]
                                ELSE Idle]
             /\ last' = [op |-> "thread", thread |-> t, step |-> "check", hash |-> error_hash,
                         stage |-> stage]
             /\ UNCHANGED <<request_counts, last_request_reset, error_history,
                            active_sessions, Others>>

\* The call goes on from "self._recent_error_hashes[error_hash] = now" to the
\* read of the hour's counter in _check_rate_limit.
ThreadInserts(t) ==
    /\ parallel.calls[t].pc = "insert"
    /\ LET call == parallel.calls[t]
           error_hash == GenerateErrorHash(call.error)
           rr == RateLimitRead(request_counts, last_request_reset, clock)
           denied == rr.count >= MAX_REQUESTS_PER_HOUR
       IN  /\ recent_error_hashes' = DictSet(recent_error_hashes, error_hash, clock)
           /\ request_counts' = rr.request_counts
           /\ last_request_reset' = rr.last_request_reset
           /\ parallel' = [parallel EXCEPT !.calls[t] =
                              IF denied THEN Idle
                              ELSE [call EXCEPT !.pc = "write", !.count = rr.count]]
           /\ last' = [op |-> "thread", thread |-> t, step |-> "insert", hash |-> error_hash,
                       stage |-> IF denied THEN "rate_limit" ELSE "passed"]
           /\ UNCHANGED <<error_history, active_sessions, Others>>

\* The call writes the counter, count + 1, and is admitted.
ThreadWrites(t) ==
    /\ parallel.calls[t].pc = "write"
    /\ LET call == parallel.calls[t]
       IN  /\ request_counts' = RateLimitWrite(request_counts, clock, call.count)
           /\ parallel' = [parallel EXCEPT !.calls[t] = [call EXCEPT !.pc = "post"],
                                           !.admitted = @ + 1]
           /\ last' = [op |-> "thread", thread |-> t, step |-> "write",
                       hash |-> GenerateErrorHash(call.error), stage |-> "admitted"]
           /\ UNCHANGED <<last_request_reset, recent_error_hashes, error_history,
                          active_sessions, Others>>

\* The call POSTs, the repair service creates session s1, and the call records
\* the attempt and returns.
ThreadPosts(t) ==
    /\ parallel.calls[t].pc = "post"
    /\ LET call == parallel.calls[t]
           error_hash == GenerateErrorHash(call.error)
           rec  == RecordAttempt(error_history, active_sessions, error_hash,
                                 "s1", SessionUrl("s1"), clock)
       IN  /\ error_history' = rec.error_history
           /\ active_sessions' = rec.active_sessions
           /\ parallel' = [parallel EXCEPT !.calls[t] = Idle]
           /\ last' = [op |-> "thread", thread |-> t, step |-> "post", hash |-> error_hash,
                       stage |-> "dispatched"]
           /\ sent' = [posted_at   |-> DictSet(sent.posted_at, error_hash, clock),
                       outstanding |-> sent.outstanding \cup {error_hash},
                       hour        |-> clock \div HOUR_SECONDS,
                       in_hour     |-> sent.in_hour + 1]
           /\ UNCHANGED <<clock, resolved_errors, request_counts, last_request_reset,
                          recent_error_hashes>>

NextThreads ==
    \E t \in Threads : ThreadChecks(t) \/ ThreadInserts(t) \/ ThreadWrites(t) \/ ThreadPosts(t)

SpecThreads == Init /\ [][NextThreads]_vars

-----------------------------------------------------------------------------
(* Properties *)

\* The route got as far as the cooldown check of the repair integration.
ReachedGates(l) ==
    /\ l.op = "route"
    /\ l.stage \notin {"severity", "devin_disabled", "ai_duplicate", "ai_cancelled",
                        "disabled", "no_api_key"}

C2_OnePostPerWindow ==
    [][ ( /\ last'.op = "route"
          /\ last'.hash \in DOMAIN sent.posted_at
          /\ clock - sent.posted_at[last'.hash] < DEDUPLICATION_WINDOW_SECONDS )
        => ~last'.posted ]_vars

\* A later report of a POSTed fingerprint with no active session, stopped as a duplicate.
C2_Witness ==
    /\ last.op = "route"
    /\ last.stage = "duplicate"
    /\ last.hash \in DOMAIN sent.posted_at
    /\ clock > sent.posted_at[last.hash]
    /\ last.hash \notin DOMAIN active_sessions

\* C3: in no clock hour do more than MAX_REQUESTS_PER_HOUR routes dispatch
\* successfully.
C3_HourlyCap == sent.in_hour <= MAX_REQUESTS_PER_HOUR

\* C4: a route gets a new session for a fingerprint from the repair service
\* only if every session it got for the fingerprint before was ended by
\* mark_pr_merged or clear_active_session, whatever session_id the 200
\* responses carried.
C4_OneSessionInFlight ==
    [][ (last'.op = "route" /\ last'.stage = "dispatched")
        => last'.hash \notin sent.outstanding ]_vars

\* C5: every entry of the active sessions has an attempt of its session id in
\* the fingerprint's history that is in progress.
C5_ActiveHasAttempt ==
    \A h \in DOMAIN active_sessions :
        /\ h \in DOMAIN error_history
        /\ \E i \in 1..Len(error_history[h]) :
              /\ error_history[h][i].session_id = active_sessions[h]
              /\ error_history[h][i].status = "in_progress"

\* An active session of a fingerprint that also has a resolved attempt.
C5_Witness ==
    \E h \in DOMAIN active_sessions :
        /\ active_sessions[h] # NoId
        /\ h \in DOMAIN resolved_errors
        /\ \E i \in 1..Len(error_history[h]) : error_history[h][i].status = "resolved"

\* C6: a history only grows at its end, by attempts in progress; an attempt
\* keeps its place and its identity, and once it is resolved or cancelled its
\* status stays.
C6_HistoryAppendOnly ==
    [][ /\ \A h \in DOMAIN error_history :
            /\ h \in DOMAIN error_history'
            /\ Len(error_history'[h]) >= Len(error_history[h])
            /\ \A i \in 1..Len(error_history[h]) :
                 LET a == error_history[h][i]
                     b == error_history'[h][i]
                 IN  /\ b.session_id = a.session_id
                     /\ b.created_at = a.created_at
                     /\ a.status \in {"resolved", "cancelled"} => b.status = a.status
                     /\ b.status \in {a.status, "resolved", "cancelled"}
        /\ \A h \in DOMAIN error_history' :
             \A i \in (Len(DictGet(error_history, h, <<>>)) + 1)..Len(error_history'[h]) :
                 error_history'[h][i].status = "in_progress" ]_vars

\* mark_pr_merged with the session id of two attempts: it resolves the first
\* again and leaves the second in progress.
C6_Witness ==
    /\ last.op = "mark_pr_merged"
    /\ last.hash \in DOMAIN error_history
    /\ Len(error_history[last.hash]) >= 2
    /\ error_history[last.hash][1].session_id = last.session_id
    /\ error_history[last.hash][2].session_id = last.session_id
    /\ error_history[last.hash][1].status = "resolved"
    /\ error_history[last.hash][1].resolved_at = clock
    /\ error_history[last.hash][2].status = "in_progress"

\* The conditions of the four checks in the state a report finds.
InCooldown(h) ==
    /\ h \in DOMAIN resolved_errors
    /\ clock < resolved_errors[h].resolved_at + PR_MERGE_COOLDOWN_SECONDS

HasActiveSession(h) == h \in DOMAIN active_sessions /\ active_sessions[h] # NoId

InDedupWindow(h) ==
    /\ h \in DOMAIN recent_error_hashes
    /\ clock - recent_error_hashes[h] < DEDUPLICATION_WINDOW_SECONDS

QuotaUsedUp ==
    /\ clock - last_request_reset <= HOUR_SECONDS
    /\ DictGet(request_counts, clock \div HOUR_SECONDS, 0) >= MAX_REQUESTS_PER_HOUR

\* C7: a report is stopped by the first of cooldown, active session,
\* deduplication window and hourly quota whose condition holds; a report
\* stopped by cooldown or active session leaves the deduplication store and
\* the quota as they were, one stopped as a duplicate leaves the quota as it
\* was.
C7_GateOrder ==
    [][ ReachedGates(last') =>
          LET h == last'.hash
              stage == last'.stage
          IN  /\ (stage = "cooldown") = InCooldown(h)
              /\ (stage = "active") = (~InCooldown(h) /\ HasActiveSession(h))
              /\ (stage = "duplicate") =
                    (~InCooldown(h) /\ ~HasActiveSession(h) /\ InDedupWindow(h))
              /\ (stage = "rate_limit") =
                    (~InCooldown(h) /\ ~HasActiveSession(h) /\ ~InDedupWindow(h) /\ QuotaUsedUp)
              /\ stage \in {"cooldown", "active"} =>
                    UNCHANGED <<recent_error_hashes, request_counts, last_request_reset>>
              /\ stage = "duplicate" => UNCHANGED <<request_counts, last_request_reset>> ]_vars

\* A report in cooldown that is also inside the deduplication window while
\* the quota is used up.
C7_Witness ==
    /\ last.op = "route"
    /\ last.stage = "cooldown"
    /\ InDedupWindow(last.hash)
    /\ QuotaUsedUp

ReportedDuplicate(l) ==
    /\ l.classifier
    /\ l.result.ai_analysis # <<>>
    /\ l.result.ai_analysis[1].is_duplicate_of_active_work

CarriesOnly(content, error) ==
    /\ content.message = error.message
    /\ content.stack_trace = error.stack_trace
    /\ \A key \in DOMAIN error.context :
          key \in DOMAIN content.context /\ content.context[key] = error.context[key]

\* C9: what a request to the classifier or to the repair service carries of
\* the error's message, stack trace and context is their sanitized form.
C9_OutboundSanitized ==
    last.op = "route" =>
        /\ last.ai_request # <<>> =>
              CarriesOnly(last.ai_request[1].error, SanitizeError(last.error))
        /\ last.devin_request # <<>> =>
              CarriesOnly(last.devin_request[1].prompt, SanitizeError(last.error))

\* The classifier cannot be used: AI analysis is disabled, the key is
\* missing, the HTTP call fails or is not answered 200, or the answer is no JSON.
ClassifierUnavailable(call) ==
    \/ ~call.cfg.enable_ai_analysis
    \/ ~call.env.anthropic_key
    \/ call.reply.http # "200"
    \/ ~call.reply.text.json

\* C10: where the classifier cannot be used, a route that passes the severity
\* and enable_devin checks returns from the statement, leaves the service in
\* the state and answers with the session that a report made directly to the
\* repair integration would; with AI analysis enabled the analysis it carries
\* is no duplicate and has confidence 0.
C10_FailOpen ==
    [][ ( /\ last'.op = "route"
          /\ last'.stage \notin {"severity", "devin_disabled"}
          /\ ClassifierUnavailable(last'.call) ) =>
          LET direct == ReportErrorWithCooldownAndHistory(Service, last'.error, last'.call.env,
                                                          last'.resp, clock)
          IN  /\ last'.stage = direct.stage
              /\ last'.posted = direct.posted
              /\ last'.result.success = direct.result.success
              /\ last'.result.devin_session_id = direct.result.devin_session_id
              /\ request_counts' = direct.svc.request_counts
              /\ last_request_reset' = direct.svc.last_request_reset
              /\ recent_error_hashes' = direct.svc.recent_error_hashes
              /\ resolved_errors' = direct.svc.resolved_errors
              /\ error_history' = direct.svc.error_history
              /\ active_sessions' = direct.svc.active_sessions
              /\ last'.call.cfg.enable_ai_analysis =>
                    /\ last'.result.ai_analysis # <<>>
                    /\ ~last'.result.ai_analysis[1].is_duplicate_of_active_work
                    /\ last'.result.ai_analysis[1].confidence = 0 ]_vars

\* A route whose classifier call failed while a session was active (the
\* classifier would have had work to match) and that went on to the checks.
C10_Witness ==
    /\ last.op = "route"
    /\ last.call = AiDown
    /\ last.stage = "active"

\* A helper of the classifier stage failed in this call: the error could not
\* be formatted for the classifier, or the classifier's endpoint failed.
ClassifierFault(l) ==
    /\ l.call.cfg.enable_ai_analysis
    /\ l.call.env.anthropic_key
    /\ \/ JsonDumpsRaises(l.error.context)
       \/ l.call.reply.http # "200"

\* The caller cancelled the call while it awaited an answer.
Cancelled(l) == l.stage \in {"ai_cancelled", "cancelled"}

\* C11: no call of route_error that the caller does not cancel, and no
\* callback of the listener, ends in an exception.  A route in which the repair path failed (the prompt builder
\* raised, the POST raised or timed out, the answer was no 200 or could not be
\* parsed) returns success = False with error set; a route in which the
\* classifier stage failed goes on to the repair path.
C11_NeverRaises ==
    /\ (last.op \in {"route", "listener"} /\ ~Cancelled(last)) => ~last.raised
    /\ (last.op = "route" /\ last.stage \in {"raised", "upstream_error"}) =>
            /\ ~last.result.success
            /\ last.result.error # <<>>
    /\ (last.op = "route" /\ ClassifierFault(last) /\ ~Cancelled(last)) => ReachedGates(last)

\* An exception of the prompt builder was caught by _route_to_devin, after the
\* error could not be formatted for the classifier either.
C11_Witness ==
    /\ last.op = "route"
    /\ last.stage = "raised"
    /\ ClassifierFault(last)
    /\ last.result.error # <<>>

\* C12: the calls admitted by the rate limiter within one clock hour, made in
\* parallel threads, number at most MAX_REQUESTS_PER_HOUR.
C12_ParallelCap == parallel.admitted <= MAX_REQUESTS_PER_HOUR

\* C13: of the routes of one error made within the deduplication window, in
\* parallel threads, at most one is dispatched and at most one attempt is
\* appended to the error's history.
C13_StormDispatchesOnce ==
    \A h \in DOMAIN error_history : Len(error_history[h]) <= 1

\* C14: a route that finds an active session for its fingerprint, outside the
\* cooldown, returns success = True with the session's id and
\* linked_to_existing = True, and makes no POST.
C14_LinkedToActive ==
    (last.op = "route" /\ last.stage = "active") =>
        /\ last.result.success
        /\ last.result.devin_session_id = active_sessions[last.hash]
        /\ ~last.posted
        /\ last.result.linked_to_existing

\* C15: a route stopped by the cooldown returns a RoutingResult with
\* success = True, in_cooldown = True and cooldown_ends_at = resolved_at +
\* PR_MERGE_COOLDOWN_SECONDS.
C15_CooldownResult ==
    (last.op = "route" /\ last.stage = "cooldown") =>
        /\ last.result.success
        /\ "in_cooldown" \in DOMAIN last.result
        /\ last.result.in_cooldown
        /\ last.result.cooldown_ends_at =
               resolved_errors[last.hash].resolved_at + PR_MERGE_COOLDOWN_SECONDS

\* The error with fingerprint h is in a storm: less than 10 seconds ago it
\* was POSTed, the repair service created a session for it, and neither
\* mark_pr_merged nor clear_active_session was called for it since.
StormSeconds == 10

InStorm(h) ==
    /\ h \in DOMAIN sent.posted_at
    /\ clock - sent.posted_at[h] < StormSeconds
    /\ h \in sent.outstanding

\* The configuration and environment of the call let a route through to the
\* checks of the repair integration.
LetsThrough(l) ==
    /\ MeetsMinSeverity(l.error.severity, l.call.cfg.min_severity)
    /\ l.call.cfg.enable_devin
    /\ IsEnabled(l.call.env.disabled)
    /\ l.call.env.api_key

\* C16 as claimed: every route of an error in a storm returns the skip
\* "Duplicate error within deduplication window".
C16_StormAllDuplicates ==
    [][ (last'.op = "route" /\ InStorm(last'.hash) /\ LetsThrough(last')) =>
            last'.result.skipped_reason = <<"Duplicate error within deduplication window">>
      ]_vars

\* C16: a route of an error in a storm makes no POST and appends no attempt.
\* It is stopped by the classifier reporting a duplicate, or, if the session
\* created has a non-empty id, by the active-session check (success = True,
\* that session id, skipped_reason "Active session <id> already working on this
\* error"), or, if the id is empty, by the deduplication window
\* (skipped_reason "Duplicate error within deduplication window").
C16_StormSkips ==
    [][ (last'.op = "route" /\ InStorm(last'.hash) /\ LetsThrough(last')) =>
          LET h   == last'.hash
              sid == DictGet(active_sessions, h, NoId)
          IN  /\ ~last'.posted
              /\ UNCHANGED error_history
              /\ last'.stage \in {"ai_duplicate", "active", "duplicate"}
              /\ last'.stage = "ai_duplicate" => ReportedDuplicate(last')
              /\ last'.stage = "active" =>
                    /\ sid # NoId
                    /\ last'.result.success
                    /\ last'.result.devin_session_id = sid
                    /\ last'.result.skipped_reason =
                          <<"Active session", sid, "already working on this error">>
              /\ last'.stage = "duplicate" =>
                    /\ sid = NoId
                    /\ ~last'.result.success
                    /\ last'.result.skipped_reason =
                          <<"Duplicate error within deduplication window">>
      ]_vars

\* A route in a storm was stopped by the active-session check.
C16_Witness ==
    /\ last.op = "route"
    /\ last.stage = "active"
    /\ ~last.posted
    /\ InStorm(last.hash)
    /\ sent.posted_at[last.hash] = clock

\* The item of active work the classifier's answer matched, in a one-element
\* sequence; << >> if it matched none.
MatchingActiveWork(l) == l.result.ai_analysis[1].matching_active_work

\* C17: a route the classifier reports as duplicate of an item of active work
\* returns success = False, linked_to_existing = True and a skipped_reason
\* that mentions the item.
C17_AiDuplicateResult ==
    (last.op = "route" /\ last.stage = "ai_duplicate" /\ MatchingActiveWork(last) # <<>>) =>
        /\ ~last.result.success
        /\ last.result.linked_to_existing
        /\ \E i \in 1..Len(last.result.skipped_reason) :
               last.result.skipped_reason[i] = MatchingActiveWork(last)

\* C18: a route the classifier reports as duplicate records no attempt and
\* leaves the history, the active sessions, the resolved errors, the
\* deduplication map and the hourly counter as they were; it makes no POST.
C18_AiDuplicateFrame ==
    [][ (last'.op = "route" /\ last'.stage = "ai_duplicate") =>
            /\ ~last'.posted
            /\ UNCHANGED <<error_history, active_sessions, resolved_errors,
                           recent_error_hashes, request_counts, last_request_reset>>
      ]_vars

\* A route was reported as duplicate while the service held an attempt, an
\* active session, a deduplication entry and a count for the hour.
C18_Witness ==
    /\ last.op = "route"
    /\ last.stage = "ai_duplicate"
    /\ last.hash \in DOMAIN error_history
    /\ DictGet(active_sessions, last.hash, NoId) # NoId
    /\ last.hash \in DOMAIN recent_error_hashes
    /\ DOMAIN request_counts # {}

\* The route ended in a policy skip: cooldown, deduplication window, hourly
\* quota, AI duplicate, severity below the threshold, or the feature disabled
\* (by DISABLE_DEVIN_AUTO_REVIEW or by enable_devin).
PolicySkip(l) ==
    /\ l.op = "route"
    /\ l.stage \in {"cooldown", "duplicate", "rate_limit", "ai_duplicate",
                     "severity", "disabled", "devin_disabled"}

\* C19: the result of every policy skip has a non-empty skipped_reason.
C19_SkipHasReason == PolicySkip(last) => last.result.skipped_reason # <<>>

\* C20: with DISABLE_DEVIN_AUTO_REVIEW set to true, 1 or yes, a route returns
\* the skip of the disabled feature, changes nothing in the service, POSTs
\* nothing to the repair service and asks neither the classifier nor the
\* code-hosting service.
C20_DisabledDoesNothing ==
    [][ (last'.op = "route" /\ ~IsEnabled(last'.call.env.disabled)
            /\ MeetsMinSeverity(last'.error.severity, last'.call.cfg.min_severity)) =>
            /\ ~last'.posted
            /\ UNCHANGED <<error_history, active_sessions, resolved_errors,
                           recent_error_hashes, request_counts, last_request_reset>>
            /\ last'.result.skipped_reason # <<>>
            /\ ~last'.classifier
      ]_vars

\* C21: a route made without DEVIN_API_KEY that is not stopped before the
\* key is looked up (by the severity threshold, enable_devin, the classifier
\* or DISABLE_DEVIN_AUTO_REVIEW) returns success = False with error set and no
\* skipped_reason, makes no POST, and leaves the deduplication map, the hourly
\* counter, the history and the active sessions as they were.
C21_NoApiKey ==
    [][ (last'.op = "route" /\ ~last'.call.env.api_key
            /\ last'.stage \notin {"severity", "devin_disabled", "ai_duplicate", "disabled"}) =>
            /\ last'.stage = "no_api_key"
            /\ ~last'.result.success
            /\ last'.result.error # <<>>
            /\ last'.result.skipped_reason = <<>>
            /\ ~last'.posted
            /\ UNCHANGED <<recent_error_hashes, request_counts, last_request_reset,
                           error_history, active_sessions, resolved_errors>>
      ]_vars

\* A route without the key, of an error the service has not seen in the
\* deduplication window.
C21_Witness ==
    /\ last.op = "route"
    /\ last.stage = "no_api_key"
    /\ ~last.call.env.api_key
    /\ last.hash \notin DOMAIN recent_error_hashes

\* C22: a route the caller cancels while it awaits the classifier or the
\* repair service returns a RoutingResult with success = False and error set,
\* and leaves the history and the active sessions as they were.
C22_CancelReturnsError ==
    [][ (last'.op = "route" /\ Cancelled(last')) =>
            /\ UNCHANGED <<error_history, active_sessions>>
            /\ ~last'.raised
            /\ ~last'.result.success
            /\ last'.result.error # <<>>
      ]_vars

\* The routes dispatched successfully so far in the clock hour of the clock.
DispatchedThisHour == IF sent.hour = clock \div HOUR_SECONDS THEN sent.in_hour ELSE 0

\* C23: a route that reaches the rate limiter, the repair service accepting
\* what it is sent, is admitted if and only if fewer than
\* MAX_REQUESTS_PER_HOUR routes were admitted before it in the current clock
\* hour; one that is not admitted is skipped with "Rate limit exceeded".
C23_AdmittedIffBelowCap ==
    [][ (last'.op = "route" /\ last'.stage \in {"rate_limit", "dispatched"}) =>
            /\ last'.stage = "rate_limit" =>
                    last'.result.skipped_reason = <<"Rate limit exceeded">>
            /\ (last'.stage = "dispatched") <=> (DispatchedThisHour < MAX_REQUESTS_PER_HOUR)
      ]_vars

\* C24: the POSTs route made to the repair service in the last HOUR_SECONDS
\* seconds number at most MAX_REQUESTS_PER_HOUR.  (Counted: the fingerprints
\* whose latest POST lies in that interval.)
C24_RollingCap ==
    Cardinality({h \in DOMAIN sent.posted_at : clock - sent.posted_at[h] < HOUR_SECONDS})
        <= MAX_REQUESTS_PER_HOUR

\* The attempt _record_attempt appends for a session created at the instant now.
NewAttempt(session_id, now) ==
    [session_id |-> session_id, session_url |-> SessionUrl(session_id),
     pr_url |-> NoId, status |-> "in_progress", created_at |-> now,
     resolved_at |-> NoTime, resolution_notes |-> <<>>, occurrence_count |-> 1]

\* C25: an attempt is recorded if and only if the dispatch succeeded.  When
\* the repair service answers 200, route returns success with the session id
\* populated, the history of the fingerprint grows by exactly one attempt in
\* progress with that session id and the active session of the fingerprint is
\* set to it; when the service answers non-200 or the transport fails, route
\* returns no success with the error set and leaves history and active
\* sessions as they were.
C25_AttemptIffDispatched ==
    [][ (last'.op = "route" /\ last'.posted) =>
            /\ last'.resp.kind = "ok" =>
                  /\ last'.result.success
                  /\ last'.result.devin_session_id # NoId
                  /\ last'.result.devin_session_id = last'.resp.session_id
                  /\ last'.hash \in DOMAIN error_history'
                  /\ error_history' =
                        DictSet(error_history, last'.hash,
                                Append(DictGet(error_history, last'.hash, <<>>),
                                       NewAttempt(last'.result.devin_session_id, clock)))
                  /\ last'.hash \in DOMAIN active_sessions'
                  /\ active_sessions' =
                        DictSet(active_sessions, last'.hash, last'.result.devin_session_id)
            /\ last'.resp.kind \in {"non200", "exception"} =>
                  /\ ~last'.result.success
                  /\ last'.result.error # <<>>
                  /\ UNCHANGED <<error_history, active_sessions>>
      ]_vars

\* C26: after mark_pr_merged(fp, pr_url, session_id, notes) returns, for any
\* prior state and any session id, the fingerprint has no active session,
\* resolved[fp] holds the new record with resolved_at = now, every attempt of
\* history[fp] whose session id matches has status resolved with the pr_url
\* and the notes set, no other attempt is changed, and no state of any other
\* fingerprint is changed.
C26_MarkMergedEffect ==
    [][ last'.op = "mark_pr_merged" =>
            LET fp  == last'.hash
                old == DictGet(error_history, fp, <<>>)
                new == DictGet(error_history', fp, <<>>)
            IN  /\ fp \notin DOMAIN active_sessions'
                /\ fp \in DOMAIN resolved_errors'
                /\ resolved_errors'[fp] = [resolved_at |-> clock, pr_url |-> last'.pr_url,
                                           session_id |-> last'.session_id,
                                           notes |-> last'.notes]
                /\ Len(new) = Len(old)
                /\ (fp \in DOMAIN error_history') = (fp \in DOMAIN error_history)
                /\ \A i \in 1..Len(old) :
                      IF old[i].session_id = last'.session_id
                      THEN /\ new[i].status = "resolved"
                           /\ new[i].pr_url = last'.pr_url
                           /\ new[i].resolution_notes = last'.notes
                           /\ new[i].session_id = old[i].session_id
                      ELSE new[i] = old[i]
                /\ \A h \in (DOMAIN active_sessions \cup DOMAIN active_sessions') \ {fp} :
                      /\ h \in DOMAIN active_sessions /\ h \in DOMAIN active_sessions'
                      /\ active_sessions'[h] = active_sessions[h]
                /\ \A h \in (DOMAIN resolved_errors \cup DOMAIN resolved_errors') \ {fp} :
                      /\ h \in DOMAIN resolved_errors /\ h \in DOMAIN resolved_errors'
                      /\ resolved_errors'[h] = resolved_errors[h]
                /\ \A h \in (DOMAIN error_history \cup DOMAIN error_history') \ {fp} :
                      /\ h \in DOMAIN error_history /\ h \in DOMAIN error_history'
                      /\ error_history'[h] = error_history[h]
                /\ UNCHANGED <<request_counts, last_request_reset, recent_error_hashes>>
      ]_vars

-----------------------------------------------------------------------------
(* The fingerprint as a function of the report *)

\* Reports whose fields are spelt character by character, the separator of
\* _generate_error_hash among the characters.
FingerprintCategories == {<<"a">>, <<"a", ":", "b">>}
FingerprintEvents     == {<<"b">>, <<"c">>, <<"b", ":", "c">>}
FingerprintMessages   == {<<"c">>, <<"m">>}
FingerprintLocations  == {<<>>, <<"l">>}
FingerprintTraces     == {<<>>, <<"t">>}
FingerprintContexts   == {EmptyDict, AuthContext}
FingerprintSeverities == {"ERROR", "CRITICAL"}

FingerprintReports ==
    {[category |-> c, event |-> e, message |-> m, stack_trace |-> st,
      code_location |-> l, context |-> x, severity |-> s, source_repo |-> NoId] :
        c \in FingerprintCategories, e \in FingerprintEvents, m \in FingerprintMessages,
        l \in FingerprintLocations, st \in FingerprintTraces, x \in FingerprintContexts,
        s \in FingerprintSeverities}

\* Two of the reports are at hand.
InitFingerprint ==
    /\ clock = 0
    /\ request_counts = EmptyDict
    /\ last_request_reset = clock
    /\ recent_error_hashes = EmptyDict
    /\ resolved_errors = EmptyDict
    /\ error_history = EmptyDict
    /\ active_sessions = EmptyDict
    /\ \E e1 \in FingerprintReports, e2 \in FingerprintReports :
          last = [op |-> "reports", e1 |-> e1, e2 |-> e2]
    /\ sent = [posted_at |-> EmptyDict, outstanding |-> {}, hour |-> 0, in_hour |-> 0]
    /\ parallel = [calls |-> [t \in Threads |-> Idle], admitted |-> 0]

\* _generate_error_hash is called for each of the two.
Fingerprint ==
    /\ last.op = "reports"
    /\ last' = [op |-> "fingerprint", e1 |-> last.e1, e2 |-> last.e2,
                hash1 |-> GenerateErrorHash(last.e1),
                hash2 |-> GenerateErrorHash(last.e2)]
    /\ UNCHANGED <<clock, request_counts, last_request_reset, recent_error_hashes,
                   resolved_errors, error_history, active_sessions, sent, parallel>>

NextFingerprint == Fingerprint

SpecFingerprint == InitFingerprint /\ [][NextFingerprint]_vars

\* The four fields the fingerprint is made of are pairwise equal.
SameIdentity(e1, e2) ==
    /\ e1.category = e2.category
    /\ e1.event = e2.event
    /\ e1.message = e2.message
    /\ e1.code_location = e2.code_location

\* C27: two reports have the same fingerprint if and only if their category,
\* event, message and code location (absent taken as empty) are pairwise
\* equal; reports whose fields differ but join with ":" to the same text do
\* not share a fingerprint, and stack trace, context and severity have no
\* influence on it.
C27_FingerprintInjective ==
    last.op = "fingerprint" =>
        ((last.hash1 = last.hash2) <=> SameIdentity(last.e1, last.e2))

-----------------------------------------------------------------------------
(* The sanitizers as functions of their argument *)

\* Pieces of text; a line of text is one piece, or two with a blank between.
TextPieces ==
    {<<"alice@example.com">>,
     <<"sk-ant-api03-XyZ">>,
     <<"123e4567-e89b-12d3-a456-426614174000">>,
     <<"10.0.0.7">>,
     <<"postgres://u:p@db/x">>,
     <<"Bearer", " ", "abc.def.ghi">>,
     <<"bearer", " ", "Bearer", " ", "tok123">>,
     <<"Bearer", " ", "[TOKEN]">>,
     <<"failed">>,
     <<"/", "home", "/", "alice", "/", "app.py">>,
     <<"/", "home", "/", "alice", "/", "home", "/", "site", "/", "app.py">>,
     <<"/", "srv", "/", "OpenDevin", "/", "app.py">>,
     <<"/", "home", "/", "alice", "/", "OpenDevin", "/", "home", "/", "x.py">>,
     <<"~", "/", "app.py">>}

TextLines ==
    TextPieces \cup {p \o <<" ">> \o q : p \in TextPieces, q \in TextPieces}

\* Context values.
StrValue(s)   == [t |-> "str", v |-> s]
ListValue(l)  == [t |-> "list", v |-> l]
DictValue(d)  == [t |-> "dict", v |-> d]
NumberValue   == [t |-> "other", v |-> <<"7">>]

SecretValue == StrValue(<<"mail", " ", "alice@example.com">>)

\* {"password": "hunter2", "note": "mail alice@example.com"}
InnerDict ==
    DictSet(DictSet(EmptyDict, <<"password">>, StrValue(<<"hunter2">>)),
            <<"note">>, SecretValue)

\* The values of the contexts; the lists nest up to two deep.
ContextValues ==
    <<SecretValue, NumberValue, DictValue(InnerDict),
      ListValue(<<SecretValue, NumberValue, DictValue(InnerDict)>>),
      ListValue(<<ListValue(<<SecretValue>>)>>),
      ListValue(<<ListValue(<<DictValue(InnerDict)>>), NumberValue>>),
      DictValue(DictSet(EmptyDict, <<"items">>, ListValue(<<ListValue(<<SecretValue>>)>>)))>>

ContextKeys == {<<"note">>, <<"access_", "token">>, <<"Authorization">>, <<"items">>}

\* A line of text or a context is at hand.
InitSanitizer ==
    /\ clock = 0
    /\ request_counts = EmptyDict
    /\ last_request_reset = clock
    /\ recent_error_hashes = EmptyDict
    /\ resolved_errors = EmptyDict
    /\ error_history = EmptyDict
    /\ active_sessions = EmptyDict
    /\ \/ \E s \in TextLines : last = [op |-> "text", text |-> s]
       \/ \E k \in ContextKeys, i \in DOMAIN ContextValues :
             last = [op |-> "context", context |-> DictSet(EmptyDict, k, ContextValues[i])]
       \/ \E i \in DOMAIN ContextValues, j \in DOMAIN ContextValues :
             last = [op |-> "context",
                     context |-> DictSet(DictSet(EmptyDict, <<"note">>, ContextValues[i]),
                                         <<"user", "Id">>, ContextValues[j])]
    /\ sent = [posted_at |-> EmptyDict, outstanding |-> {}, hour |-> 0, in_hour |-> 0]
    /\ parallel = [calls |-> [t \in Threads |-> Idle], admitted |-> 0]

Unaffected ==
    UNCHANGED <<clock, request_counts, last_request_reset, recent_error_hashes,
                resolved_errors, error_history, active_sessions, sent, parallel>>

\* _sanitize_string and _sanitize_stack_trace are called with the line.
SanitizeText ==
    /\ last.op = "text"
    /\ last' = [op |-> "sanitized", text |-> last.text,
                string |-> SanitizeString(last.text),
                stack_trace |-> SanitizeStackTrace(last.text)]
    /\ Unaffected

\* Each is called again with what it returned.
SanitizeTextAgain ==
    /\ last.op = "sanitized"
    /\ last' = [op |-> "sanitized_again", text |-> last.text,
                string |-> last.string, stack_trace |-> last.stack_trace,
                string_again |-> SanitizeString(last.string),
                stack_trace_again |-> SanitizeStackTrace(last.stack_trace)]
    /\ Unaffected

\* _sanitize_context is called with the context.
SanitizeMap ==
    /\ last.op = "context"
    /\ last' = [op |-> "context_sanitized", context |-> last.context,
                sanitized |-> SanitizeContext(last.context)]
    /\ Unaffected

\* It is called again with what it returned.
SanitizeMapAgain ==
    /\ last.op = "context_sanitized"
    /\ last' = [op |-> "context_sanitized_again", context |-> last.context,
                sanitized |-> last.sanitized,
                sanitized_again |-> SanitizeContext(last.sanitized)]
    /\ Unaffected

NextSanitizer == SanitizeText \/ SanitizeTextAgain \/ SanitizeMap \/ SanitizeMapAgain

SpecSanitizer == InitSanitizer /\ [][NextSanitizer]_vars

\* C28: sanitizing is idempotent: the string sanitizer, the stack-trace
\* sanitizer with its project-root and /home/<user>/ path rules, and the
\* context sanitizer each return their argument unchanged when it is a
\* result of theirs.
C28_SanitizeIdempotent ==
    /\ last.op = "sanitized_again" =>
          /\ last.string_again = last.string
          /\ last.stack_trace_again = last.stack_trace
    /\ last.op = "context_sanitized_again" => last.sanitized_again = last.sanitized

\* out is what the context in has to become: the value of every sensitive
\* key replaced, every string passed through _sanitize_string, maps and
\* lists followed to any depth, everything else as it was.
RECURSIVE MapSanitized(_, _), ValueSanitized(_, _)
MapSanitized(in, out) ==
    /\ DOMAIN out = DOMAIN in
    /\ \A key \in DOMAIN in :
          IF IsSensitiveKey(key)
          THEN out[key].t = "str" /\ out[key].v = <<"[REDACTED]">>
          ELSE ValueSanitized(in[key], out[key])

ValueSanitized(x, y) ==
    /\ y.t = x.t
    /\ IF x.t = "str" THEN y.v = SanitizeString(x.v)
       ELSE IF x.t = "dict" THEN MapSanitized(x.v, y.v)
       ELSE IF x.t = "list" THEN
            /\ Len(y.v) = Len(x.v)
            /\ \A i \in 1..Len(x.v) : ValueSanitized(x.v[i], y.v[i])
       ELSE y.v = x.v

\* C29: in the sanitized context every key at every nesting depth (in nested
\* maps, in lists, in lists nested in lists) whose lower-cased name contains
\* a sensitive name maps to "[REDACTED]" whatever its value was, every
\* string leaf at every depth has been passed through the string sanitizer,
\* and the leaves that are no strings are unchanged.
C29_ContextSanitizedAtDepth ==
    last.op = "context_sanitized" => MapSanitized(last.context, last.sanitized)

\* The call came as far as _check_duplicate.
ReachedDedup(l) == ReachedGates(l) /\ l.stage \notin {"cooldown", "active"}

\* C30: the duplicate check answers duplicate if and only if the fingerprint
\* was inserted less than DEDUPLICATION_WINDOW_SECONDS ago; a hit leaves the
\* stored timestamp as it is; once the window has elapsed the check answers
\* no duplicate and inserts the fingerprint again with the current time.
C30_DedupWindow ==
    [][ (last'.op = "route" /\ ReachedDedup(last')) =>
            LET fp == last'.hash
                within == /\ fp \in DOMAIN recent_error_hashes
                          /\ clock - recent_error_hashes[fp] < DEDUPLICATION_WINDOW_SECONDS
            IN  /\ (last'.stage = "duplicate") <=> within
                /\ fp \in DOMAIN recent_error_hashes'
                /\ recent_error_hashes'[fp] =
                      IF within THEN recent_error_hashes[fp] ELSE clock
      ]_vars

\* A report is turned away as a duplicate 200 seconds after the fingerprint
\* was inserted, and the store still holds the time of the insertion.
C30_Witness ==
    /\ last.op = "route"
    /\ last.stage = "duplicate"
    /\ clock = 200
    /\ last.hash \in DOMAIN recent_error_hashes
    /\ recent_error_hashes[last.hash] = 0

-----------------------------------------------------------------------------
(* The recurring-error block of the prompt as a function of the history *)

MaxAttempts == 7

AttemptSessions == <<"s1", "s2", "s3", "s4", "s5", "s6", "s7", "s8">>

\* The k-th attempt _record_attempt appended, an hour after the one before;
\* resolved: mark_pr_merged has found it since.
PastAttempt(k, resolved) ==
    [session_id |-> AttemptSessions[k], session_url |-> SessionUrl(AttemptSessions[k]),
     pr_url |-> IF resolved THEN "https://host/pr/7" ELSE NoId,
     status |-> IF resolved THEN "resolved" ELSE "in_progress",
     created_at |-> (k - 1) * HOUR_SECONDS,
     resolved_at |-> IF resolved THEN k * HOUR_SECONDS ELSE NoTime,
     resolution_notes |-> IF resolved THEN <<"fixed">> ELSE <<>>,
     occurrence_count |-> 1]

\* The store holds a history of up to MaxAttempts attempts for one fingerprint.
InitPrompt ==
    /\ \E n \in 0..MaxAttempts : \E resolved \in [1..n -> BOOLEAN] :
          /\ clock = n * HOUR_SECONDS
          /\ error_history =
                IF n = 0 THEN EmptyDict
                ELSE DictSet(EmptyDict, GenerateErrorHash(ErrAuth),
                             [k \in 1..n |-> PastAttempt(k, resolved[k])])
    /\ request_counts = EmptyDict
    /\ last_request_reset = clock
    /\ recent_error_hashes = EmptyDict
    /\ resolved_errors = EmptyDict
    /\ active_sessions = EmptyDict
    /\ last = [op |-> "history"]
    /\ sent = [posted_at |-> EmptyDict, outstanding |-> {}, hour |-> 0, in_hour |-> 0]
    /\ parallel = [calls |-> [t \in Threads |-> Idle], admitted |-> 0]

\* The prompt report_error_with_cooldown_and_history builds for the error:
\* _get_historical_context, then one of the two prompt builders.
BuildPrompt ==
    /\ last.op = "history"
    /\ \E history \in {GetHistoricalContext(error_history, GenerateErrorHash(ErrAuth))} :
          last' = [op |-> "prompt", history |-> history,
                   prompt |-> IF history.has_history /\ history.previous_attempts # <<>>
                              THEN BuildPromptWithHistoricalContext(SanitizeError(ErrAuth),
                                                                    history)
                              ELSE BuildDevinPrompt(SanitizeError(ErrAuth))]
    /\ UNCHANGED <<clock, request_counts, last_request_reset, recent_error_hashes,
                   resolved_errors, error_history, active_sessions, sent, parallel>>

NextPrompt == BuildPrompt

SpecPrompt == InitPrompt /\ [][NextPrompt]_vars

\* The attempts the recurring-error block of a prompt lists.
ListedAttempts(prompt) ==
    IF prompt.recurring = <<>> THEN <<>> ELSE prompt.recurring[1].attempts

\* The last n of a list, all of it if it has no more.
MostRecent(attempts, n) ==
    IF Len(attempts) <= n THEN attempts
    ELSE SubSeq(attempts, Len(attempts) - n + 1, Len(attempts))

\* C31: with more than five attempts in the history of the fingerprint the
\* recurring-error block of the prompt lists the five appended last, and
\* with five or fewer it lists them all.
C31_FiveMostRecent ==
    last.op = "prompt" =>
        ListedAttempts(last.prompt)
            = MostRecent(DictGet(error_history, GenerateErrorHash(ErrAuth), <<>>), 5)

-----------------------------------------------------------------------------
(* The analysis as a function of the classifier's answer *)

\* The values of "confidence" in the answers, in hundredths.
Confidences == {-20, 0, 50, 100, 170}

\* The texts the classifier answers with: no JSON, or an object with these fields.
AnswerTexts ==
    {[json |-> j, rootCause |-> <<"scheduler stalls">>, category |-> c, severity |-> s,
      isDuplicateOfActiveWork |-> d, matchingActiveWorkId |-> m,
      confidence_is_number |-> n, confidence |-> x] :
        j \in BOOLEAN, c \in {"", "functional", "SECURITY", "urgent"},
        s \in {"", "critical", "ERROR", "fatal"}, d \in BOOLEAN,
        m \in {NoId, "7", "9"}, n \in BOOLEAN, x \in Confidences}

\* The classifier has answered 200 with one of the texts.
InitAnalysis ==
    /\ clock = 0
    /\ request_counts = EmptyDict
    /\ last_request_reset = clock
    /\ recent_error_hashes = EmptyDict
    /\ resolved_errors = EmptyDict
    /\ error_history = EmptyDict
    /\ active_sessions = EmptyDict
    /\ \E text \in AnswerTexts : last = [op |-> "answer", text |-> text]
    /\ sent = [posted_at |-> EmptyDict, outstanding |-> {}, hour |-> 0, in_hour |-> 0]
    /\ parallel = [calls |-> [t \in Threads |-> Idle], admitted |-> 0]

\* _parse_analysis_response is called with the text and the open PR as active work.
ParseAnswer ==
    /\ last.op = "answer"
    /\ last' = [op |-> "analysis", text |-> last.text,
                analysis |-> ParseAnalysisResponse(last.text, GetOpenUnmergedPrs("open_prs"))]
    /\ UNCHANGED <<clock, request_counts, last_request_reset, recent_error_hashes,
                   resolved_errors, error_history, active_sessions, sent, parallel>>

NextAnalysis == ParseAnswer

SpecAnalysis == InitAnalysis /\ [][NextAnalysis]_vars

\* C32: every analysis the classifier stage returns, for any response text,
\* is well-formed: its category is one of the six fixed values, its severity
\* one of the five, and its confidence lies between 0 and 1.
C32_AnalysisWellFormed ==
    last.op = "analysis" =>
        /\ last.analysis.category \in ValidCategories
        /\ last.analysis.severity \in ValidSeverities
        /\ last.analysis.confidence >= 0
        /\ last.analysis.confidence <= 100

\* C33: clear_active_session(fp) removes the active session of fp and changes
\* nothing else: the attempts in the history, the resolved records, the
\* dedup-window map, the quota counter and the active sessions of the other
\* fingerprints are as before; it changes nothing when fp has no active
\* session.
C33_ClearActiveFrame ==
    [][ last'.op = "clear_active_session" =>
            /\ last'.hash \notin DOMAIN active_sessions'
            /\ DOMAIN active_sessions' = DOMAIN active_sessions \ {last'.hash}
            /\ \A h \in DOMAIN active_sessions' : active_sessions'[h] = active_sessions[h]
            /\ UNCHANGED <<error_history, resolved_errors, recent_error_hashes,
                           request_counts, last_request_reset>>
      ]_vars

\* The active session of a fingerprint has been cleared: its attempt is still
\* in progress in the history, and another fingerprint has its session.
C33_Witness ==
    /\ last.op = "clear_active_session"
    /\ last.hash \notin DOMAIN active_sessions
    /\ last.hash \in DOMAIN error_history
    /\ \E i \in 1..Len(error_history[last.hash]) :
          error_history[last.hash][i].status = "in_progress"
    /\ \E h \in DOMAIN active_sessions : h # last.hash


-----------------------------------------------------------------------------
(* Termination of parallel calls.  The calls of SpecThreads, with the POST    *)
(* to the repair service ending in each of the ways the code provides for:    *)
(* status 200, another status, or an exception, which the httpx timeout of    *)
(* 30 s raises when the service does not answer.                              *)

\* The POST at "await client.post(...)" never ends: no answer and no timeout.
RepairAnswersNever == {}

\* The ways the awaited POST ends.
RepairAnswers == {"ok", "status", "timeout"}

\* The call in thread t gets the end of its POST and returns: with the session
\* on 200, and with success = False otherwise, from "if response.status_code
\* != 200" or from "except Exception".
ThreadAnswered(t) ==
    /\ parallel.calls[t].pc = "post"
    /\ \E answer \in RepairAnswers :
         IF answer = "ok"
         THEN ThreadPosts(t)
         ELSE /\ parallel' = [parallel EXCEPT !.calls[t] = Idle]
              /\ last' = [op |-> "thread", thread |-> t, step |-> "post",
                          hash |-> GenerateErrorHash(parallel.calls[t].error),
                          stage |-> IF answer = "status" THEN "upstream_error" ELSE "raised"]
              /\ UNCHANGED <<request_counts, last_request_reset, recent_error_hashes,
                             error_history, active_sessions, Others>>

\* The statements of a call that was started.
ThreadRuns(t) == ThreadInserts(t) \/ ThreadWrites(t) \/ ThreadAnswered(t)

\* The calls route the first MaxRouted errors of the workers.
MaxRouted == 2

\* A call is started in thread t, as in ThreadChecks.
ThreadStarts(t) ==
    /\ ThreadChecks(t)
    /\ last'.hash \in {WorkerHash(k) : k \in 1..MaxRouted}

NextReturns == \E t \in Threads : ThreadStarts(t) \/ ThreadRuns(t)

\* Each thread of the executor is scheduled again and again, and each POST
\* ends; nothing is assumed about when a call is started.
SpecReturns == Init /\ [][NextReturns]_vars /\ \A t \in Threads : WF_vars(ThreadRuns(t))

\* C34: every route call that was started eventually returns, whatever the
\* calls in the other threads do and however their POSTs end: a call is not
\* left waiting for another call or for a lock, so parallel calls do not
\* deadlock.
C34_EveryCallReturns ==
    \A t \in Threads : (parallel.calls[t].pc # "idle") ~> (parallel.calls[t].pc = "idle")

\* A call has returned after its POST timed out while a call in another
\* thread is still awaiting its own POST.
C34_Witness ==
    /\ last.op = "thread"
    /\ last.step = "post"
    /\ last.stage = "raised"
    /\ parallel.calls[last.thread].pc = "idle"
    /\ \E u \in Threads \ {last.thread} : parallel.calls[u].pc = "post"


-----------------------------------------------------------------------------
(* The learning loop.  An error keeps being routed while time passes, with    *)
(* a context that can be serialized and with one that cannot: the two reports *)
(* have one fingerprint, which does not cover the context.  The classifier is *)
(* off, down, or calls the error new; the repair service answers 200; fixes   *)
(* are merged up to the instant LastMerge.                                    *)

LearningSchedule == <<0, 200, 600, 3700, 4100, 7800>>

LearningInstants == {LearningSchedule[i] : i \in 1..Len(LearningSchedule)}

\* The latest instant of a merge: a cooldown and a dedup entry that start by
\* then have ended at the last instant of LearningSchedule.
LastMerge == LearningSchedule[5]

LearningCalls == {AiOff, AiDown, AiNew}

LearningResponses == {OkResponse(sid) : sid \in ServiceSessionIds}

RouteRecurring(error) == RouteWith({error}, LearningCalls, LearningResponses)

MarkMergedRecurring ==
    /\ clock <= LastMerge
    /\ MarkMergedOf({GenerateErrorHash(ErrAuth)})

AdvanceLearning == AdvanceIn(LearningInstants)

NextLearning ==
    RouteRecurring(ErrAuth) \/ RouteRecurring(ErrOpaque) \/ MarkMergedRecurring
        \/ AdvanceLearning

\* Time passes, and each of the reports keeps being routed.
SpecLearning ==
    /\ Init
    /\ [][NextLearning]_vars
    /\ WF_vars(AdvanceLearning)
    /\ WF_vars(RouteRecurring(ErrAuth))
    /\ WF_vars(RouteRecurring(ErrOpaque))

\* mark_pr_merged was called for fingerprint h, which has recorded attempts.
MergedWithAttempts(h) ==
    /\ last.op = "mark_pr_merged"
    /\ last.hash = h
    /\ DictGet(error_history, h, <<>>) # <<>>

\* A route of fingerprint h was dispatched with the history of h in its
\* prompt and has_historical_context set in the service's ReportResult.
DispatchedWithHistory(h) ==
    /\ last.op = "route"
    /\ last.hash = h
    /\ last.stage = "dispatched"
    /\ last.devin_request[1].prompt.recurring # <<>>
    /\ last.report[1].has_historical_context

C36_AiDuplicateNamesActiveWork ==
    (last.op = "route" /\ last.stage = "ai_duplicate") =>
        /\ MatchingActiveWork(last) # <<>>
        /\ MatchingActiveWork(last)[1].id = last.call.reply.text.matchingActiveWorkId


-----------------------------------------------------------------------------
(* Retries of errors that were let through by the duplicate check and then    *)
(* not dispatched: a burst of distinct errors, the repair service accepting   *)
(* or failing each, and the latest error reported again.                      *)

\* The errors of the burst before this one are accepted by the repair service.
FirstFailing == 8

FailingResponses == {[kind |-> k, session_id |-> NoId] : k \in {"non200", "exception"}}

\* An error that was not reported before; the repair service accepts it or,
\* from the error FirstFailing on, answers with another status than 200 or
\* the POST raises.
RouteNewOrFailing ==
    /\ Reported < NumWorkers
    /\ RouteWith({WorkerError(Reported + 1)}, {AiOff},
                 {OkResponse("s1")} \cup IF Reported + 1 >= FirstFailing
                                         THEN FailingResponses ELSE {})

\* The latest error is reported again.
RouteRetry ==
    /\ Reported >= FirstFailing
    /\ RouteWith({WorkerError(Reported)}, {AiOff}, {OkResponse("s1")} \cup FailingResponses)

NextRetry == RouteNewOrFailing \/ RouteRetry \/ AdvanceRolling

SpecRetry == Init /\ [][NextRetry]_vars

\* The request counter of the current hour as _check_rate_limit finds it.
CountBefore == RateLimitRead(request_counts, last_request_reset, clock).count

\* C37: a route that passes the duplicate check and is then denied by the
\* rate limiter, or whose POST fails or is answered with another status than
\* 200, leaves its fingerprint in the deduplication map with the time of the
\* call and records no attempt and no session; the failed POST has used a unit
\* of the hour's quota.  A later route of a fingerprint that is in the map
\* within the window and has no attempt is skipped as a duplicate.
C37_FailedRouteBlocksRetry ==
    [][ last'.op = "route" =>
          /\ last'.stage \in {"rate_limit", "upstream_error"} =>
                /\ last'.hash \notin DOMAIN recent_error_hashes
                      \/ clock - recent_error_hashes[last'.hash] >= DEDUPLICATION_WINDOW_SECONDS
                /\ last'.hash \in DOMAIN recent_error_hashes'
                /\ recent_error_hashes'[last'.hash] = clock
                /\ UNCHANGED <<error_history, active_sessions>>
                /\ last'.posted <=> last'.stage = "upstream_error"
                /\ DictGet(request_counts', clock \div HOUR_SECONDS, 0) =
                      IF last'.stage = "upstream_error" THEN CountBefore + 1 ELSE CountBefore
          /\ (/\ ReachedDedup(last')
              /\ InDedupWindow(last'.hash)
              /\ last'.hash \notin DOMAIN error_history) =>
                /\ last'.stage = "duplicate"
                /\ ~last'.posted
                /\ ~last'.result.success
                /\ UNCHANGED <<error_history, active_sessions>>
      ]_vars

\* An error was denied by the rate limiter, and 200 seconds later its retry is
\* skipped as a duplicate; no session was ever created for it.
C37_Witness ==
    /\ last.op = "route"
    /\ last.stage = "duplicate"
    /\ last.hash \notin DOMAIN error_history
    /\ last.hash \notin DOMAIN sent.posted_at
    /\ clock - recent_error_hashes[last.hash] = 200


\* C38: the entry of a fingerprint in _active_sessions is changed only by a
\* dispatch of that fingerprint (set), by mark_pr_merged and by
\* clear_active_session for it (removed), not by a skipped or failed route
\* nor by the passage of time; and while a fingerprint has an entry, no route
\* of it is dispatched.
C38_ActiveBlocksDispatch ==
    [][ \A h \in DOMAIN active_sessions \cup DOMAIN active_sessions' :
          /\ (\/ (h \in DOMAIN active_sessions) # (h \in DOMAIN active_sessions')
              \/ DictGet(active_sessions, h, NoId) # DictGet(active_sessions', h, NoId)) =>
                 /\ last'.op \in {"route", "mark_pr_merged", "clear_active_session"}
                 /\ last'.hash = h
                 /\ last'.op = "route" =>
                        last'.stage = "dispatched" /\ h \in DOMAIN active_sessions'
                 /\ last'.op # "route" => h \notin DOMAIN active_sessions'
          /\ h \in DOMAIN active_sessions =>
                 ~(last'.op = "route" /\ last'.hash = h /\ last'.stage = "dispatched")
      ]_vars


-----------------------------------------------------------------------------
(* The two entry points on one store.  ErrorRouterService and                 *)
(* DevinMonitoringListener both default to the module's devin_integration     *)
(* instance; an error the listener observes is also routed, merged and        *)
(* cleared while time passes.                                                 *)

ObservedError == ErrorObservationContext(<<"tool", " ", "crashed">>, <<"E1">>)

RouteObserved == RouteWith({ObservedError}, {AiOff}, {OkResponse("s1")})

ListenerObserves == ListenerReports("on_session_event", {ObservedError})

MarkMergedObserved == MarkMergedOf({GenerateErrorHash(ObservedError)})

ClearActiveObserved == ClearActiveOf({GenerateErrorHash(ObservedError)})

NextEntryPoints ==
    RouteObserved \/ ListenerObserves \/ MarkMergedObserved \/ ClearActiveObserved \/ Advance

SpecEntryPoints == Init /\ [][NextEntryPoints]_vars

\* C39: no entry point POSTs a fingerprint to the repair service while the
\* fingerprint is in cooldown or has an active session: neither route_error
\* nor the listener's path through report_error.
C39_NoEntryPointBypassesGates ==
    [][ (last'.op \in {"route", "listener"} /\ last'.posted) =>
            /\ ~InCooldown(last'.hash)
            /\ ~HasActiveSession(last'.hash)
      ]_vars


-----------------------------------------------------------------------------
(* Two reports that differ in a redacted substring: the error of ErrAuth      *)
(* reported for two e-mail addresses, routed and merged while time passes.    *)

ErrAuthOther ==
    [ErrAuth EXCEPT !.message = <<"auth", " ", "failed", " ", "for", " ", "bob@example.com",
                                  " ", "using", " ", "Bearer", " ", "abc.def.ghi">>]

\* The report that differs from error in the address only.
Twin(error) == IF error.message = ErrAuth.message THEN ErrAuthOther ELSE ErrAuth

TwinHashes == {GenerateErrorHash(ErrAuth), GenerateErrorHash(ErrAuthOther)}

RouteTwins == RouteWith({ErrAuth, ErrAuthOther}, {AiOff}, {OkResponse("s1")})

MarkMergedTwins == MarkMergedOf(TwinHashes)

NextTwins == RouteTwins \/ MarkMergedTwins \/ AdvanceRolling

SpecTwins == Init /\ [][NextTwins]_vars

\* C40: the gates work on the fingerprint of the raw category, event, message
\* and code location.  Two reports that differ only in a substring the
\* sanitizer redacts have different fingerprints; a route is stopped by the
\* cooldown, the active session or the deduplication window of its own
\* fingerprint only, whatever the store holds for the other; and a dispatch
\* is stored under the raw fingerprint and sends the error sections that a
\* dispatch of the other report sends.
C40_RawFingerprint ==
    [][ (last'.op = "route" /\ ReachedGates(last')) =>
          LET error == last'.error
              error_hash == GenerateErrorHash(error)
          IN  /\ error_hash # GenerateErrorHash(Twin(error))
              /\ SanitizeError(error) = SanitizeError(Twin(error))
              /\ last'.stage \in {"cooldown", "active", "duplicate"} <=>
                    (InCooldown(error_hash) \/ HasActiveSession(error_hash)
                        \/ InDedupWindow(error_hash))
              /\ last'.stage = "dispatched" =>
                    /\ recent_error_hashes'[error_hash] = clock
                    /\ active_sessions'[error_hash] = "s1"
                    /\ GenerateErrorHash(SanitizeError(error)) \notin
                           DOMAIN recent_error_hashes' \cup DOMAIN active_sessions'
                    /\ [last'.devin_request[1].prompt EXCEPT !.recurring = <<>>]
                           = BuildDevinPrompt(SanitizeError(Twin(error)))
      ]_vars

\* A report is dispatched at the instant at which its twin was dispatched and
\* while the twin's session is active.
C40_Witness ==
    /\ last.op = "route"
    /\ last.stage = "dispatched"
    /\ DictGet(sent.posted_at, GenerateErrorHash(Twin(last.error)), NoTime) = clock
    /\ DictGet(active_sessions, GenerateErrorHash(Twin(last.error)), NoId) = "s1"
    /\ DictGet(active_sessions, last.hash, NoId) = "s1"

====
